---- MODULE Spec2Model ----
(***************************************************************************)
(* GeoPhoto-Map: the photo ingestion pipeline of the server (performScan,  *)
(* getAllFiles, loadConfig and the HTTP handlers around them), modelled    *)
(* as a state machine.  Node runs the server on one thread: a handler or a *)
(* segment of the async performScan between two awaits runs to its end     *)
(* before any other handler or I/O completion is served.  The scan is      *)
(* modelled one candidate at a time; while a scan frame is inside such a   *)
(* synchronous segment (Busy) only that frame may take a step.             *)
(***************************************************************************)
EXTENDS Integers, Sequences, FiniteSets, TLC

\* ------------------------------------------------------------------ bounds
\* Date.now() values the model distinguishes: 0..MaxClock.
MaxClock == 1

\* ----------------------------------------------------------------- values
\* A nullable value (JS null / SQL NULL): <<>> is null, <<x>> is x.
None == <<>>
Some(x) == <<x>>

\* ------------------------------------------------------------- file system
\* A path is the sequence of its components.  path.join(dir, name).
Join(dirPath, file) == Append(dirPath, file)

\* path.basename(filePath)
Basename(filePath) == filePath[Len(filePath)]

\* path.extname(f).toLowerCase(), for the file names of the modelled disk.
ExtLower(name) ==
  CASE name = "a.jpg" -> ".jpg"
    [] name = "B.HEIC" -> ".heic"
    [] name = "notes.txt" -> ".txt"
    [] OTHER -> ""

imageExtensions ==
  {".jpg", ".jpeg", ".png", ".webp", ".heic", ".heif", ".tiff", ".tif", ".bmp"}

IsImage(filePath) == ExtLower(Basename(filePath)) \in imageExtensions

R1 == <<"r1">>
SUB == <<"r1", "sub">>
MISSING == <<"missing">>
APP_PHOTOS == <<"app", "photos">>
FileA == <<"r1", "a.jpg">>
FileB == <<"r1", "sub", "B.HEIC">>
Notes == <<"r1", "notes.txt">>

\* The disk the server scans: what statSync says of each existing path and
\* what readdirSync lists for each directory.  A path outside the domain does
\* not exist.
Disk ==
  (R1 :> [kind |-> "dir", listing |-> <<"a.jpg", "sub", "notes.txt">>]) @@
  (SUB :> [kind |-> "dir", listing |-> <<"B.HEIC">>]) @@
  (APP_PHOTOS :> [kind |-> "dir", listing |-> <<>>]) @@
  (FileA :> [kind |-> "file", listing |-> <<>>]) @@
  (FileB :> [kind |-> "file", listing |-> <<>>]) @@
  (Notes :> [kind |-> "file", listing |-> <<>>])

\* fs.existsSync
ExistsSync(fs, p) == p \in DOMAIN fs

\* getAllFiles: depth-first walk in listing order.  kind "nostat" is an entry
\* whose statSync throws (skipped by the inner catch), kind "noread" a
\* directory whose readdirSync throws, as it does for a path that is not a
\* directory (the outer catch returns what was collected so far).
RECURSIVE getAllFiles(_, _, _)
RECURSIVE WalkEntries(_, _, _, _)

\* Variant of getAllFiles: the files of the directory itself, without the
\* descent into its subdirectories.
getAllFilesFlat(fs, dirPath, arrayOfFiles) ==
  IF ~ExistsSync(fs, dirPath) THEN arrayOfFiles
  ELSE IF fs[dirPath].kind # "dir" THEN arrayOfFiles
  ELSE arrayOfFiles \o
         SelectSeq([k \in DOMAIN fs[dirPath].listing |->
                      Join(dirPath, fs[dirPath].listing[k])],
                   LAMBDA q : ExistsSync(fs, q) /\ fs[q].kind = "file")

\* Variant of getAllFiles: the outer catch returns an empty array and not
\* the one handed in.
getAllFilesDropping(fs, dirPath, arrayOfFiles) ==
  IF ~ExistsSync(fs, dirPath) THEN arrayOfFiles
  ELSE IF fs[dirPath].kind # "dir" THEN <<>>
  ELSE WalkEntries(fs, dirPath, fs[dirPath].listing, arrayOfFiles)

getAllFiles(fs, dirPath, arrayOfFiles) ==
  IF ~ExistsSync(fs, dirPath) THEN arrayOfFiles
  ELSE IF fs[dirPath].kind # "dir" THEN arrayOfFiles
  ELSE WalkEntries(fs, dirPath, fs[dirPath].listing, arrayOfFiles)

WalkEntries(fs, dirPath, files, arrayOfFiles) ==
  IF files = <<>> THEN arrayOfFiles
  ELSE LET fullPath == Join(dirPath, Head(files))
           after ==
             IF ~ExistsSync(fs, fullPath) \/ fs[fullPath].kind = "nostat"
               THEN arrayOfFiles
             ELSE IF fs[fullPath].kind \in {"dir", "noread"}
               THEN getAllFiles(fs, fullPath, arrayOfFiles)
             ELSE Append(arrayOfFiles, fullPath)
       IN WalkEntries(fs, dirPath, Tail(files), after)

\* ------------------------------------------------------------ configuration
\* An entry of photosDirectories that is not a string (POST /api/config only
\* checks that photosDirectories is an array).
NonString == <<"#non-string">>

\* The default root "./photos", relative to the application directory.
DefaultDir == <<".", "photos">>

\* The root lists a configuration file may hold.
ConfigLists ==
  { <<R1, SUB>>, <<SUB, SUB>>, <<MISSING, R1>>, <<R1, NonString>> }

\* Contents of config.json: absent, not parsable as JSON, an object without
\* photosDirectories, or an object with a root list.
ConfigFiles ==
  { [kind |-> "absent", dirs |-> <<>>],
    [kind |-> "garbage", dirs |-> <<>>],
    [kind |-> "nodirs", dirs |-> <<>>] }
  \cup { [kind |-> "dirs", dirs |-> l] : l \in ConfigLists }

\* Variant of loadConfig: the file is not read, the defaults are used.
loadConfigDefaults(file) ==
  [defined |-> TRUE, photosDirectories |-> <<DefaultDir>>]

\* loadConfig: the defaults when the file is absent or cannot be parsed (the
\* error is caught inside loadConfig), else what the file holds.  defined is
\* FALSE when the parsed object has no photosDirectories.
loadConfig(file) ==
  CASE file.kind \in {"absent", "garbage"} ->
         [defined |-> TRUE, photosDirectories |-> <<DefaultDir>>]
    [] file.kind = "nodirs" ->
         [defined |-> FALSE, photosDirectories |-> <<>>]
    [] OTHER ->
         [defined |-> TRUE, photosDirectories |-> file.dirs]

\* path.isAbsolute(dir) ? dir : path.join(__dirname, dir)
ResolveDir(dir) ==
  IF dir[1] = "." THEN <<"app">> \o Tail(dir) ELSE dir

\* Variant of FilterImages: every file found counts as a candidate.
FilterImagesAll(files) == files

\* Keep the elements of a sequence that satisfy IsImage.
RECURSIVE FilterImages(_)
FilterImages(files) ==
  IF files = <<>> THEN <<>>
  ELSE IF IsImage(Head(files))
    THEN <<Head(files)>> \o FilterImages(Tail(files))
    ELSE FilterImages(Tail(files))

\* The first pass of performScan over the configured roots: the candidates
\* of every existing root, in order, and their count.  threw is TRUE when an
\* entry makes path.isAbsolute throw; the count accumulated before it stays.
\* warned holds the roots for which the pass has logged a warning: a root
\* that does not exist is passed over by the `if` without an else branch,
\* and nothing is logged for it.
RECURSIVE FirstPassDirs(_, _, _)
FirstPassDirs(fs, dirs, acc) ==
  IF dirs = <<>> THEN acc
  ELSE IF Head(dirs) = NonString
    THEN [acc EXCEPT !.threw = TRUE]
  ELSE LET PHOTOS_DIR == ResolveDir(Head(dirs))
           imageFiles == FilterImages(getAllFiles(fs, PHOTOS_DIR, <<>>))
       IN IF ExistsSync(fs, PHOTOS_DIR)
            THEN FirstPassDirs(fs, Tail(dirs),
                   [acc EXCEPT !.files = @ \o imageFiles,
                               !.total = @ + Len(imageFiles)])
            ELSE FirstPassDirs(fs, Tail(dirs), acc)

FirstPass(fs, cfg) ==
  IF ~cfg.defined
    THEN [threw |-> TRUE, files |-> <<>>, total |-> 0, warned |-> {}]
    ELSE FirstPassDirs(fs, cfg.photosDirectories,
                       [threw |-> FALSE, files |-> <<>>, total |-> 0, warned |-> {}])

\* ------------------------------------------------------------ photo index
\* The photos table: its rows in insertion order.  A row is
\* [id, path, filename, latitude, longitude, timestamp, has_gps,
\* thumbnail_path].

\* Variant of RowsWithPath: the lookup is made with the base name, not with
\* the path.
RowsWithBasename(photos, p) ==
  {i \in DOMAIN photos : photos[i].path = <<Basename(p)>>}

\* The rows the index on path finds for a path: the lookup behind both the
\* UNIQUE constraint of the path column and SELECT ... WHERE path = ?.
RowsWithPath(photos, p) == {i \in DOMAIN photos : photos[i].path = p}

\* Variant of SelectByPath: the query matches no row.
SelectByPathNever(photos, filePath) == None

\* db.prepare("SELECT id FROM photos WHERE path = ?").get(filePath)
SelectByPath(photos, filePath) ==
  IF RowsWithPath(photos, filePath) = {} THEN None
  ELSE Some(photos[CHOOSE i \in RowsWithPath(photos, filePath) : TRUE].id)

\* Variant of DbInsert: the table is emptied before the row is written.
DbInsertReplacing(photos, row, storageOk) ==
  IF ~storageOk
    THEN [threw |-> TRUE, photos |-> photos]
    ELSE [threw |-> FALSE, photos |-> <<[id |-> 1] @@ row>>]

\* Variant of DbInsert: the path column without UNIQUE.
DbInsertNoUnique(photos, row, storageOk) ==
  IF ~storageOk
    THEN [threw |-> TRUE, photos |-> photos]
    ELSE [threw |-> FALSE,
          photos |-> Append(photos, [id |-> Len(photos) + 1] @@ row)]

\* INSERT INTO photos (...) VALUES (...): throws, changing nothing, on a
\* storage error or when the path is already there (path TEXT UNIQUE); else
\* appends the row under the next AUTOINCREMENT id.
DbInsert(photos, row, storageOk) ==
  IF ~storageOk \/ RowsWithPath(photos, row.path) # {}
    THEN [threw |-> TRUE, photos |-> photos]
    ELSE [threw |-> FALSE,
          photos |-> Append(photos, [id |-> Len(photos) + 1] @@ row)]

\* Variant of DbUpdateLocation: the UPDATE without its WHERE clause.
DbUpdateLocationAll(photos, id, latitude, longitude) ==
  [i \in DOMAIN photos |->
     [photos[i] EXCEPT !.latitude = latitude,
                       !.longitude = longitude,
                       !.has_gps = 1]]

\* UPDATE photos SET latitude = ?, longitude = ?, has_gps = 1 WHERE id = ?
DbUpdateLocation(photos, id, latitude, longitude) ==
  [i \in DOMAIN photos |->
     IF photos[i].id = id
       THEN [photos[i] EXCEPT !.latitude = latitude,
                              !.longitude = longitude,
                              !.has_gps = 1]
       ELSE photos[i]]

\* ------------------------------------------------------ metadata extraction
GoodOriginal == "2024:05:01 10:00:00"
GoodCreate == "2023:12:31 23:59:59"
ZeroDate == "0000:00:00 00:00:00"

\* What `exiftool -j -n` can give for a file: a failure (the process cannot
\* be run, exits non-zero or prints no JSON), or a record in which each tag
\* is there or not.
ExifFailure ==
  [ok |-> FALSE, GPSLatitude |-> None, GPSLongitude |-> None,
   DateTimeOriginal |-> None, CreateDate |-> None]

AllExifOutputs ==
  { ExifFailure }
  \cup
  { [ok |-> TRUE, GPSLatitude |-> la, GPSLongitude |-> lo,
     DateTimeOriginal |-> d, CreateDate |-> c] :
      la \in {None, Some(48)}, lo \in {None, Some(2)},
      d \in {None, Some(GoodOriginal), Some(ZeroDate)},
      c \in {None, Some(GoodCreate)} }

\* The outputs the scanned files give: a failure, no tag at all, both GPS
\* tags with a capture date, a latitude alone.
ExifOutputs ==
  { out \in AllExifOutputs :
      \/ ~out.ok
      \/ /\ out.CreateDate = None
         /\ \/ /\ out.GPSLatitude = None /\ out.GPSLongitude = None
               /\ out.DateTimeOriginal = None
            \/ /\ out.GPSLatitude # None /\ out.GPSLongitude # None
               /\ out.DateTimeOriginal = Some(GoodOriginal)
            \/ /\ out.GPSLatitude # None /\ out.GPSLongitude = None
               /\ out.DateTimeOriginal = None }

\* Variant of ReplaceDate: the tag is handed to new Date as exiftool wrote
\* it, colons in the date.
ReplaceDateNone(s) == s

\* s.replace(/^(\d{4}):(\d{2}):(\d{2})/, "$1-$2-$3")
ReplaceDate(s) ==
  CASE s = GoodOriginal -> "2024-05-01 10:00:00"
    [] s = GoodCreate -> "2023-12-31 23:59:59"
    [] s = ZeroDate -> "0000-00-00 00:00:00"
    [] OTHER -> s

\* new Date(t).toISOString(): None stands for the RangeError of an invalid
\* date.
ToISOString(t) ==
  CASE t = "2024-05-01 10:00:00" -> Some("2024-05-01T10:00:00.000Z")
    [] t = "2023-12-31 23:59:59" -> Some("2023-12-31T23:59:59.000Z")
    [] OTHER -> None

\* Variant of ParseExif: the locals start as the location 0, 0 with
\* hasGps = 1 and not as null, so a failure of exiftool leaves a location.
ParseExifZeroDefaults(out) ==
  LET gps == out.ok /\ out.GPSLatitude # None /\ out.GPSLongitude # None
      date == IF out.DateTimeOriginal # None THEN out.DateTimeOriginal
              ELSE out.CreateDate
  IN [lat |-> IF gps THEN out.GPSLatitude ELSE Some(0),
      lng |-> IF gps THEN out.GPSLongitude ELSE Some(0),
      hasGps |-> 1,
      timestamp |-> IF out.ok /\ date # None
                      THEN ToISOString(ReplaceDate(date[1]))
                      ELSE None]

\* Variant of ParseExif: one of the two GPS tags is enough for a location.
ParseExifEitherTag(out) ==
  LET gps == out.ok /\ (out.GPSLatitude # None \/ out.GPSLongitude # None)
      date == IF out.DateTimeOriginal # None THEN out.DateTimeOriginal
              ELSE out.CreateDate
  IN [lat |-> IF gps THEN out.GPSLatitude ELSE None,
      lng |-> IF gps THEN out.GPSLongitude ELSE None,
      hasGps |-> IF gps THEN 1 ELSE 0,
      timestamp |-> IF out.ok /\ date # None
                      THEN ToISOString(ReplaceDate(date[1]))
                      ELSE None]

\* Variant of ParseExif: the date is parsed ahead of the GPS assignment, so
\* a date that does not parse throws before lat, lng and hasGps are set.
ParseExifDateFirst(out) ==
  LET gps == out.ok /\ out.GPSLatitude # None /\ out.GPSLongitude # None
      date == IF out.DateTimeOriginal # None THEN out.DateTimeOriginal
              ELSE out.CreateDate
      threw == /\ out.ok /\ date # None
               /\ ToISOString(ReplaceDate(date[1])) = None
  IN [lat |-> IF gps /\ ~threw THEN out.GPSLatitude ELSE None,
      lng |-> IF gps /\ ~threw THEN out.GPSLongitude ELSE None,
      hasGps |-> IF gps /\ ~threw THEN 1 ELSE 0,
      timestamp |-> IF out.ok /\ date # None
                      THEN ToISOString(ReplaceDate(date[1]))
                      ELSE None]

\* The exiftool block of performScan: the locals lat, lng, hasGps and
\* timestamp after it.  A failure of exiftool leaves all four as initialised;
\* a date that does not parse throws after lat, lng and hasGps were assigned.
ParseExif(out) ==
  LET gps == out.ok /\ out.GPSLatitude # None /\ out.GPSLongitude # None
      date == IF out.DateTimeOriginal # None THEN out.DateTimeOriginal
              ELSE out.CreateDate
  IN [lat |-> IF gps THEN out.GPSLatitude ELSE None,
      lng |-> IF gps THEN out.GPSLongitude ELSE None,
      hasGps |-> IF gps THEN 1 ELSE 0,
      timestamp |-> IF out.ok /\ date # None
                      THEN ToISOString(ReplaceDate(date[1]))
                      ELSE None]

\* The external calls of the exiftool block: the exiftool process, and the
\* warning of the catch around the block when the process or the parsing of
\* its output threw.
ExifCalls(out) ==
  LET date == IF out.DateTimeOriginal # None THEN out.DateTimeOriginal
              ELSE out.CreateDate
      dateThrows == /\ date # None
                    /\ ToISOString(ReplaceDate(date[1])) = None
  IN IF out.ok /\ ~dateThrows THEN {"exiftool"}
     ELSE {"exiftool", "exifError"}

\* Variant of NeedsThumbnail: a thumbnail for every new candidate.
NeedsThumbnailAlways(hasGps) == TRUE

\* if (hasGps === 1): only then is a thumbnail generated.
NeedsThumbnail(hasGps) == hasGps = 1

\* ext === ".heic" || ext === ".heif"
IsHeic(filePath) == ExtLower(Basename(filePath)) \in {".heic", ".heif"}

\* `thumb_${Date.now()}_${file}`
ThumbName(now, file) == <<"thumb", now, file>>

\* -------------------------------------------------------------------- state
VARIABLES
  booted,                \* startServer has made its startup performScan() call
  isScanning,            \* let isScanning
  lastScanTime,          \* let lastScanTime: null or the time of completion
  currentScanTotal,      \* let currentScanTotal
  currentScanProcessed,  \* let currentScanProcessed
  db,                    \* the photos table
  thumbs,                \* the file names in THUMBS_DIR
  configFile,            \* the contents of config.json
  runs,                  \* the performScan calls that passed the guard and
                         \* have not returned: their locals and position
  clock,                 \* Date.now()
  tree,                  \* the directory tree on disk: what statSync and
                         \* readdirSync answer for each path
  found,                 \* the root and the result of the latest call of
                         \* getAllFiles made on its own, if there was one
  lastEvent              \* the call of performScan or of POST /api/scan made
                         \* by the latest step, if it made one: who made it,
                         \* whether performScan passed its guard, and the
                         \* HTTP answer

vars ==
  <<booted, isScanning, lastScanTime, currentScanTotal, currentScanProcessed,
    db, thumbs, configFile, runs, clock, tree, found, lastEvent>>

\* What the program itself holds, without the record of the last call.
progVars ==
  <<isScanning, lastScanTime, currentScanTotal, currentScanProcessed,
    db, thumbs, configFile, runs>>

\* Variant of Busy: a handler may be served at any point of a run.
BusyNever == FALSE

\* A performScan call is inside a synchronous segment: it has not reached an
\* await, so nothing else is served.
SyncPcs == {"firstPass", "scan"}
AwaitPcs == {"readFile", "heicConvert", "sharp"}
Busy == \E i \in DOMAIN runs : runs[i].pc \in SyncPcs

Remove(seq, i) == SubSeq(seq, 1, i - 1) \o SubSeq(seq, i + 1, Len(seq))

\* The locals of a performScan call right after `isScanning = true`.
NewFrame ==
  [pc |-> "firstPass", files |-> <<>>, idx |-> 1,
   lat |-> None, lng |-> None, timestamp |-> None, hasGps |-> 0,
   thumbFilename |-> None,
   ops |-> {},        \* the external calls made for the last candidate taken
   logged |-> None]   \* the path named by the per-file catch, if it logged

\* The latest step called neither performScan nor POST /api/scan.
NoEvent == [src |-> "none", admitted |-> FALSE, response |-> "none"]

Init ==
  /\ booted = FALSE
  /\ isScanning = FALSE
  /\ lastScanTime = None
  /\ currentScanTotal = 0
  /\ currentScanProcessed = 0
  /\ db = <<>>
  /\ thumbs = {}
  /\ configFile \in ConfigFiles
  /\ runs = <<>>
  /\ clock = 0
  /\ tree = Disk
  /\ found = None
  /\ lastEvent = NoEvent

\* ---------------------------------------------------------------- triggers
\* Variant of ScanGuard: performScan without its re-entrancy guard.
ScanGuardNever(flag) == FALSE

\* `if (isScanning) return;` at the head of performScan: TRUE when the call
\* returns at once.
ScanGuard(flag) == flag

\* performScan up to `isScanning = true`, called by src.
PerformScanEntry(src, response) ==
  IF ScanGuard(isScanning)
    THEN /\ lastEvent' = [src |-> src, admitted |-> FALSE, response |-> response]
         /\ UNCHANGED <<isScanning, runs>>
    ELSE /\ lastEvent' = [src |-> src, admitted |-> TRUE, response |-> response]
         /\ isScanning' = TRUE
         /\ runs' = Append(runs, NewFrame)

\* `performScan();` at the end of the scanning set-up of startServer.
StartupScan ==
  /\ ~booted
  /\ booted' = TRUE
  /\ PerformScanEntry("startup", "none")
  /\ UNCHANGED <<tree, found, lastScanTime, currentScanTotal, currentScanProcessed, db,
                 thumbs, configFile, clock>>

\* setInterval(performScan, 5 * 60 * 1000) fires.
TimerTick ==
  /\ booted /\ ~Busy
  /\ PerformScanEntry("timer", "none")
  /\ UNCHANGED <<tree, found, booted, lastScanTime, currentScanTotal, currentScanProcessed,
                 db, thumbs, configFile, clock>>

\* Variant of ScanConflict: the handler does not look at the flag.
ScanConflictNever(flag) == FALSE

\* `if (isScanning)` of POST /api/scan: TRUE when the handler answers 409.
ScanConflict(flag) == flag

\* POST /api/scan
PostScan ==
  /\ booted /\ ~Busy
  /\ IF ScanConflict(isScanning)
       THEN /\ lastEvent' = [src |-> "post", admitted |-> FALSE,
                             response |-> "conflict"]
            /\ UNCHANGED <<isScanning, runs>>
       ELSE PerformScanEntry("post", "started")
  /\ UNCHANGED <<tree, found, booted, lastScanTime, currentScanTotal, currentScanProcessed,
                 db, thumbs, configFile, clock>>

\* ------------------------------------------------------- the other handlers
\* GET /api/scan-status: answers with the four values of the run state as
\* they are, and changes nothing.
GetScanStatus ==
  /\ booted /\ ~Busy
  /\ lastEvent' = [src |-> "status", admitted |-> FALSE, response |-> "snapshot"]
  /\ UNCHANGED <<tree, found, booted, isScanning, lastScanTime, currentScanTotal,
                 currentScanProcessed, db, thumbs, configFile, runs, clock>>

\* POST /api/config with an array: loadConfig, replace the list, saveConfig.
PostConfig(photosDirectories) ==
  /\ booted /\ ~Busy
  /\ configFile' = [kind |-> "dirs", dirs |-> photosDirectories]
  /\ lastEvent' = NoEvent
  /\ UNCHANGED <<tree, found, booted, isScanning, lastScanTime, currentScanTotal,
                 currentScanProcessed, db, thumbs, runs, clock>>

\* The latitude/longitude pairs a request body of POST /api/photos/:id/location
\* may carry: numbers, or null (or no such key) for either.
LocationBodies == { <<Some(10), Some(20)>>, <<None, Some(20)>> }

\* POST /api/photos/:id/location
PostLocation(id, latitude, longitude) ==
  /\ booted /\ ~Busy
  /\ db' = DbUpdateLocation(db, id, latitude, longitude)
  /\ lastEvent' = NoEvent
  /\ UNCHANGED <<tree, found, booted, isScanning, lastScanTime, currentScanTotal,
                 currentScanProcessed, thumbs, configFile, runs, clock>>

\* Time passes.
AdvanceClock ==
  /\ clock < MaxClock
  /\ clock' = clock + 1
  /\ lastEvent' = NoEvent
  /\ UNCHANGED <<tree, found, booted, isScanning, lastScanTime, currentScanTotal,
                 currentScanProcessed, db, thumbs, configFile, runs>>

\* ----------------------------------------------------------- the scan body
\* Variant of FlagAfterTry: the flag is cleared at the end of the loop only,
\* not on the way out through the outer catch.
FlagClearedOnSuccessOnly(threw) == threw

\* finally { isScanning = false }: the flag after the try block, reached by
\* the end of the loop (threw = FALSE) or through the outer catch.
FlagAfterTry(threw) == FALSE

\* Variant of CounterReset: the counter keeps the value the previous run
\* left.
CounterKept(old) == old

\* `currentScanProcessed = 0;` at the head of an admitted performScan.
CounterReset(old) == 0

\* performScan from loadConfig to the end of the first pass.
FirstPassStep(i) ==
  /\ i \in DOMAIN runs /\ runs[i].pc = "firstPass"
  /\ LET currentConfig == loadConfig(configFile)
         fp == FirstPass(tree, currentConfig)
     IN /\ currentScanTotal' = fp.total
        /\ currentScanProcessed' = CounterReset(currentScanProcessed)
        /\ IF fp.threw
             THEN /\ isScanning' = FlagAfterTry(TRUE)
                  /\ runs' = Remove(runs, i)
             ELSE /\ runs' = [runs EXCEPT ![i] =
                       [@ EXCEPT !.pc = "scan", !.files = fp.files]]
                  /\ UNCHANGED isScanning
  /\ lastEvent' = NoEvent
  /\ UNCHANGED <<tree, found, booted, lastScanTime, db, thumbs, configFile, clock>>

\* The frame when the loop moves on to the next candidate: ops are the
\* external calls made for the candidate just left.
NextCandidate(f, ops) ==
  [f EXCEPT !.pc = "scan", !.idx = @ + 1,
            !.lat = None, !.lng = None, !.timestamp = None, !.hasGps = 0,
            !.thumbFilename = None, !.ops = ops, !.logged = None]

\* Variant of LogFileError: the catch names the file as the thumbnail catch
\* does, by its base name.
LogFileErrorBasename(filePath) == Some(<<Basename(filePath)>>)

\* console.error(`Unexpected error processing file ${filePath}:`, fileError)
LogFileError(filePath) == Some(filePath)

\* Variant of InsertRow: no per-file catch, an INSERT that throws ends the
\* run.
InsertRowAborting(i, f, thumbFilename, ops) ==
  \E storageOk \in BOOLEAN :
    LET filePath == f.files[f.idx]
        r == DbInsert(db,
                      [path |-> filePath, filename |-> Basename(filePath),
                       latitude |-> f.lat, longitude |-> f.lng,
                       timestamp |-> f.timestamp, has_gps |-> f.hasGps,
                       thumbnail_path |-> thumbFilename],
                      storageOk)
    IN /\ db' = r.photos
       /\ runs' = IF r.threw THEN Remove(runs, i)
                  ELSE [runs EXCEPT ![i] =
                          NextCandidate(f, ops \cup {"insert"})]

\* The INSERT for the current candidate of frame f and the per-file catch
\* around it.
InsertRow(i, f, thumbFilename, ops) ==
  \E storageOk \in BOOLEAN :
    LET filePath == f.files[f.idx]
        r == DbInsert(db,
                      [path |-> filePath, filename |-> Basename(filePath),
                       latitude |-> f.lat, longitude |-> f.lng,
                       timestamp |-> f.timestamp, has_gps |-> f.hasGps,
                       thumbnail_path |-> thumbFilename],
                      storageOk)
    IN /\ db' = r.photos
       /\ runs' = [runs EXCEPT ![i] =
                     [NextCandidate(f, ops \cup {"insert"}) EXCEPT
                        !.logged = IF r.threw THEN LogFileError(filePath)
                                   ELSE None]]

\* Variant of ProcessedAfter: the increment comes after the index check, so
\* a skipped candidate is not counted.
ProcessedAfterIndexCheck(n, existing) ==
  IF existing # None THEN n ELSE n + 1

\* `currentScanProcessed++`, the first statement of the loop body, ahead of
\* the index check: existing, the row found for the candidate, plays no part.
ProcessedAfter(n, existing) == n + 1

\* Variant of LastScanTimeAfter: the end of the loop records nothing.
LastScanTimeKept(old, now) == old

\* `lastScanTime = new Date().toISOString();` after the candidate loop.
LastScanTimeAfter(old, now) == Some(now)

\* One turn of the candidate loop, up to its first await or to the INSERT;
\* past the last candidate, the end of performScan.  outputs are the results
\* exiftool may give for a file.
ScanStepWith(i, outputs) ==
  /\ i \in DOMAIN runs /\ runs[i].pc = "scan"
  /\ LET f == runs[i] IN
       IF f.idx > Len(f.files)
         THEN /\ lastScanTime' = LastScanTimeAfter(lastScanTime, clock)
              /\ isScanning' = FlagAfterTry(FALSE)
              /\ runs' = Remove(runs, i)
              /\ UNCHANGED <<currentScanProcessed, db>>
         ELSE /\ currentScanProcessed' =
                   ProcessedAfter(currentScanProcessed,
                                  SelectByPath(db, f.files[f.idx]))
              /\ UNCHANGED <<lastScanTime, isScanning>>
              /\ IF SelectByPath(db, f.files[f.idx]) # None
                   THEN /\ runs' = [runs EXCEPT ![i] =
                                      NextCandidate(f, {})]
                        /\ UNCHANGED db
                   ELSE \E out \in outputs :
                          LET m == ParseExif(out)
                              g == [f EXCEPT !.lat = m.lat, !.lng = m.lng,
                                             !.hasGps = m.hasGps,
                                             !.timestamp = m.timestamp]
                              calls == ExifCalls(out)
                          IN IF NeedsThumbnail(m.hasGps)
                               THEN /\ runs' = [runs EXCEPT ![i] =
                                          [g EXCEPT !.pc = "readFile",
                                                    !.ops = calls \cup {"readFile"}]]
                                    /\ UNCHANGED db
                               ELSE InsertRow(i, g, None, calls)
  /\ lastEvent' = NoEvent
  /\ UNCHANGED <<tree, found, booted, currentScanTotal, thumbs, configFile, clock>>

\* The candidate loop over the files of the modelled tree.
ScanStep(i) == ScanStepWith(i, ExifOutputs)

\* Variant of ReadFileDone: a file that cannot be read, or is empty, is left
\* without a row (`continue` in place of the INSERT).
ReadFileDoneSkipping(i) ==
  /\ ~Busy
  /\ i \in DOMAIN runs /\ runs[i].pc = "readFile"
  /\ LET f == runs[i] IN
       \E res \in {"error", "empty", "data"} :
         IF res # "data"
           THEN /\ runs' = [runs EXCEPT ![i] = NextCandidate(f, f.ops)]
                /\ UNCHANGED db
         ELSE IF IsHeic(f.files[f.idx])
           THEN /\ runs' = [runs EXCEPT ![i] =
                      [f EXCEPT !.pc = "heicConvert",
                                !.ops = @ \cup {"heicConvert"}]]
                /\ UNCHANGED db
           ELSE /\ runs' = [runs EXCEPT ![i] =
                      [f EXCEPT !.pc = "sharp",
                                !.thumbFilename =
                                   Some(ThumbName(clock, Basename(f.files[f.idx]))),
                                !.ops = @ \cup {"sharp"}]]
                /\ UNCHANGED db
  /\ lastEvent' = NoEvent
  /\ UNCHANGED <<tree, found, booted, isScanning, lastScanTime, currentScanTotal,
                 currentScanProcessed, thumbs, configFile, clock>>

\* `await fs.promises.readFile(filePath)` settles.
ReadFileDone(i) ==
  /\ ~Busy
  /\ i \in DOMAIN runs /\ runs[i].pc = "readFile"
  /\ LET f == runs[i] IN
       \E res \in {"error", "empty", "data"} :
         IF res # "data"
           THEN InsertRow(i, f, None, f.ops)
         ELSE IF IsHeic(f.files[f.idx])
           THEN /\ runs' = [runs EXCEPT ![i] =
                      [f EXCEPT !.pc = "heicConvert",
                                !.ops = @ \cup {"heicConvert"}]]
                /\ UNCHANGED db
           ELSE /\ runs' = [runs EXCEPT ![i] =
                      [f EXCEPT !.pc = "sharp",
                                !.thumbFilename =
                                   Some(ThumbName(clock, Basename(f.files[f.idx]))),
                                !.ops = @ \cup {"sharp"}]]
                /\ UNCHANGED db
  /\ lastEvent' = NoEvent
  /\ UNCHANGED <<tree, found, booted, isScanning, lastScanTime, currentScanTotal,
                 currentScanProcessed, thumbs, configFile, clock>>

\* `await heicConvert(...)` settles.
HeicConvertDone(i) ==
  /\ ~Busy
  /\ i \in DOMAIN runs /\ runs[i].pc = "heicConvert"
  /\ LET f == runs[i] IN
       \E converted \in BOOLEAN :
         IF converted
           THEN /\ runs' = [runs EXCEPT ![i] =
                      [f EXCEPT !.pc = "sharp",
                                !.thumbFilename =
                                   Some(ThumbName(clock, Basename(f.files[f.idx]))),
                                !.ops = @ \cup {"sharp"}]]
                /\ UNCHANGED db
           ELSE InsertRow(i, f, None, f.ops)
  /\ lastEvent' = NoEvent
  /\ UNCHANGED <<tree, found, booted, isScanning, lastScanTime, currentScanTotal,
                 currentScanProcessed, thumbs, configFile, clock>>

\* `await sharp(fileBuffer).resize(...).toFile(thumbPath)` settles: the file
\* is written, or the promise rejects and no file is left.
SharpDone(i) ==
  /\ ~Busy
  /\ i \in DOMAIN runs /\ runs[i].pc = "sharp"
  /\ LET f == runs[i] IN
       \E written \in BOOLEAN :
         /\ thumbs' = IF written THEN thumbs \cup {f.thumbFilename[1]}
                      ELSE thumbs
         /\ InsertRow(i, f, f.thumbFilename, f.ops)
  /\ lastEvent' = NoEvent
  /\ UNCHANGED <<tree, found, booted, isScanning, lastScanTime, currentScanTotal,
                 currentScanProcessed, configFile, clock>>

\* A step of a performScan call.
RunStep ==
  \E i \in DOMAIN runs :
    \/ FirstPassStep(i)
    \/ ScanStep(i)
    \/ ReadFileDone(i)
    \/ HeicConvertDone(i)
    \/ SharpDone(i)

Next ==
  \/ StartupScan
  \/ TimerTick
  \/ PostScan
  \/ GetScanStatus
  \/ \E l \in ConfigLists : PostConfig(l)
  \/ \E id \in 1..(Len(db) + 1), body \in LocationBodies :
       PostLocation(id, body[1], body[2])
  \/ AdvanceClock
  \/ \E i \in DOMAIN runs : FirstPassStep(i)
  \/ \E i \in DOMAIN runs : ScanStep(i)
  \/ \E i \in DOMAIN runs : ReadFileDone(i)
  \/ \E i \in DOMAIN runs : HeicConvertDone(i)
  \/ \E i \in DOMAIN runs : SharpDone(i)

Spec == Init /\ [][Next]_vars

\* The calls that start runs and the steps of the runs: the part of Next
\* that reads or writes the run state (POST /api/config and
\* POST /api/photos/:id/location touch neither isScanning nor a run's
\* locals).
NextRuns ==
  \/ StartupScan
  \/ TimerTick
  \/ PostScan
  \/ \E i \in DOMAIN runs : FirstPassStep(i)
  \/ \E i \in DOMAIN runs : ScanStep(i)
  \/ \E i \in DOMAIN runs : ReadFileDone(i)
  \/ \E i \in DOMAIN runs : HeicConvertDone(i)
  \/ \E i \in DOMAIN runs : SharpDone(i)

\* Every external call of a run returns or fails, and the event loop runs
\* the continuation.
FairSpec == Init /\ [][NextRuns]_vars /\ WF_vars(RunStep)

\* The server with a configuration nobody changes: Next without
\* POST /api/config.
NextFixedConfig ==
  \/ StartupScan
  \/ TimerTick
  \/ PostScan
  \/ GetScanStatus
  \/ \E id \in 1..(Len(db) + 1), body \in LocationBodies :
       PostLocation(id, body[1], body[2])
  \/ AdvanceClock
  \/ \E i \in DOMAIN runs : FirstPassStep(i)
  \/ \E i \in DOMAIN runs : ScanStep(i)
  \/ \E i \in DOMAIN runs : ReadFileDone(i)
  \/ \E i \in DOMAIN runs : HeicConvertDone(i)
  \/ \E i \in DOMAIN runs : SharpDone(i)

SpecFixedConfig == Init /\ [][NextFixedConfig]_vars

\* ------------------------------------------------------------------ claims
\* A path has a row in the index.
PathIndexed(photos, p) == \E k \in DOMAIN photos : photos[k].path = p

\* The candidates a run over the current configuration enumerates.
Candidates == FirstPass(Disk, loadConfig(configFile)).files

\* Every candidate of the current configuration has a row.
AllIndexed ==
  \A k \in DOMAIN Candidates : PathIndexed(db, Candidates[k])

\* C1: at most one performScan body is active at any instant, and the running
\* flag is set exactly while one is: no interleaving of the startup scan,
\* timer ticks and trigger requests starts a second body.
C1_OneRunAtATime ==
  /\ Len(runs) <= 1
  /\ isScanning <=> Len(runs) = 1

\* A timer tick or trigger request was turned away while the one run was
\* waiting for its thumbnail.
C1_Witness ==
  /\ Len(runs) = 1 /\ isScanning
  /\ runs[1].pc = "sharp"
  /\ lastEvent.src \in {"timer", "post"} /\ ~lastEvent.admitted

\* C2: every run returns to Idle: whenever the running flag is set it is
\* cleared later, also when the run ends early in the first pass.
C2_ReturnsToIdle == isScanning ~> ~isScanning

\* A run has set the flag and is about to fail in its first pass.
C2_Witness ==
  /\ isScanning /\ Len(runs) = 1
  /\ runs[1].pc = "firstPass"
  /\ FirstPass(Disk, loadConfig(configFile)).threw

\* C3: POST /api/scan answers "conflict" and changes nothing when a run is
\* active, and answers "started" and starts exactly one run when none is;
\* it gives no other answer.
C3_TriggerAnswer ==
  [][lastEvent'.src = "post" =>
       /\ lastEvent'.response \in {"started", "conflict"}
       /\ isScanning =>
            /\ lastEvent'.response = "conflict"
            /\ UNCHANGED progVars
       /\ ~isScanning =>
            /\ lastEvent'.response = "started"
            /\ lastEvent'.admitted
            /\ Len(runs') = Len(runs) + 1
            /\ isScanning']_vars

\* A trigger request was answered "conflict" during a run.
C3_Witness ==
  /\ lastEvent = [src |-> "post", admitted |-> FALSE, response |-> "conflict"]
  /\ isScanning /\ Len(runs) = 1

\* C4: a timer tick during a run changes nothing, and a run starts only in
\* the step of a startup call, timer tick or trigger request made while no
\* run is active: nothing is queued.
C4_TickIgnored ==
  [][/\ (lastEvent'.src = "timer" /\ isScanning) =>
          (~lastEvent'.admitted /\ UNCHANGED progVars)
     /\ Len(runs') > Len(runs) =>
          /\ ~isScanning
          /\ lastEvent'.admitted
          /\ lastEvent'.src \in {"startup", "timer", "post"}]_vars

\* A timer tick was ignored during a run that had already processed a
\* candidate.
C4_Witness ==
  /\ lastEvent = [src |-> "timer", admitted |-> FALSE, response |-> "none"]
  /\ isScanning /\ currentScanProcessed > 0

\* No two rows have the same path.
NoDuplicatePaths ==
  \A i, j \in DOMAIN db : db[i].path = db[j].path => i = j

Columns(r) ==
  [path |-> r.path, filename |-> r.filename, latitude |-> r.latitude,
   longitude |-> r.longitude, timestamp |-> r.timestamp,
   has_gps |-> r.has_gps, thumbnail_path |-> r.thumbnail_path]

\* C6: no two rows have the same path, and an INSERT for a path that has a
\* row leaves the table as it is.
C6_PathUnique ==
  /\ NoDuplicatePaths
  /\ \A i \in DOMAIN db : DbInsert(db, Columns(db[i]), TRUE).photos = db

\* A run has gone past a file that its roots reach twice, and the file has
\* a row.
C6_Witness ==
  /\ Len(runs) = 1 /\ runs[1].pc = "scan"
  /\ \E j, k \in DOMAIN runs[1].files :
       /\ j < k /\ k < runs[1].idx
       /\ runs[1].files[j] = runs[1].files[k]
       /\ PathIndexed(db, runs[1].files[k])

\* C7: a candidate whose path has a row when the run reaches it is skipped:
\* no external call is made for it, no thumbnail is written, the table stays
\* as it is and the loop moves to the next candidate.
C7_Skip ==
  [][\A i \in DOMAIN runs :
       (/\ runs[i].pc = "scan"
        /\ runs[i].idx <= Len(runs[i].files)
        /\ PathIndexed(db, runs[i].files[runs[i].idx])
        /\ runs' # runs) =>
         /\ db' = db
         /\ thumbs' = thumbs
         /\ i \in DOMAIN runs'
         /\ runs'[i].pc = "scan"
         /\ runs'[i].idx = runs[i].idx + 1
         /\ runs'[i].ops = {}]_vars

\* A run has just skipped a candidate that has a row.
C7_Witness ==
  /\ Len(runs) = 1 /\ runs[1].pc = "scan"
  /\ runs[1].idx > 1 /\ runs[1].ops = {}
  /\ PathIndexed(db, runs[1].files[runs[1].idx - 1])
  /\ currentScanProcessed = runs[1].idx - 1

\* C8: a row has a thumbnail only if it has a location, and a run reads,
\* converts or resizes a file, or holds a thumbnail name for it, only if the
\* file has a location.
C8_ThumbnailOnlyWithGps ==
  /\ \A i \in DOMAIN db : db[i].thumbnail_path # None => db[i].has_gps = 1
  /\ \A i \in DOMAIN runs :
       (runs[i].pc \in AwaitPcs \/ runs[i].thumbFilename # None)
          => runs[i].hasGps = 1

\* A run has just inserted a candidate without location, reading nothing,
\* and the table holds a row with a thumbnail as well.
C8_Witness ==
  /\ Len(runs) = 1 /\ runs[1].pc = "scan"
  /\ runs[1].ops = {"exiftool", "insert"}
  /\ \E i \in DOMAIN db :
       /\ db[i].path = runs[1].files[runs[1].idx - 1]
       /\ db[i].has_gps = 0 /\ db[i].thumbnail_path = None
  /\ \E i \in DOMAIN db : db[i].thumbnail_path # None

\* C9 as stated: has_gps = 1 iff latitude and longitude are both non-null,
\* and the two are null together.
C9_GpsConsistent ==
  \A i \in DOMAIN db :
    /\ db[i].has_gps = 1 <=> (db[i].latitude # None /\ db[i].longitude # None)
    /\ db[i].latitude = None <=> db[i].longitude = None

\* C10 as stated: a row's thumbnail_path names a file of the thumbnail
\* store.
C10_ThumbnailExists ==
  \A i \in DOMAIN db :
    db[i].thumbnail_path # None => db[i].thumbnail_path[1] \in thumbs

\* The paths that have a row.
IndexedPaths(photos) == {photos[k].path : k \in DOMAIN photos}

\* C11: the pipeline never deletes a row and never modifies one: in every
\* step of a run the rows present before are all there after, each field as
\* it was, and in every step of the server the set of indexed paths only
\* grows (a manual correction changes fields of a row, never its path).
C11_RowsKept ==
  [][/\ IndexedPaths(db) \subseteq IndexedPaths(db')
     /\ runs' # runs =>
          /\ Len(db') >= Len(db)
          /\ \A k \in DOMAIN db : db'[k] = db[k]]_vars

\* A run has just inserted a second row, after a manual correction of the
\* first.
C11_Witness ==
  /\ Len(db) = 2 /\ db[1].latitude = Some(10)
  /\ Len(runs) = 1 /\ "insert" \in runs[1].ops
  /\ db[2].path = runs[1].files[runs[1].idx - 1]

\* The row a run writes for a candidate whose exiftool block left the
\* locals m, with thumbnail name t.
RowOf(filePath, m, t) ==
  [path |-> filePath, filename |-> Basename(filePath),
   latitude |-> m.lat, longitude |-> m.lng, timestamp |-> m.timestamp,
   has_gps |-> m.hasGps, thumbnail_path |-> t]

\* Run i has, in this step, taken its current candidate and got a failure
\* from exiftool for it.
ExifFailedInStep(i) ==
  /\ i \in DOMAIN runs /\ i \in DOMAIN runs'
  /\ runs[i].pc = "scan" /\ runs[i].idx <= Len(runs[i].files)
  /\ runs'[i] # runs[i]
  /\ "exifError" \in runs'[i].ops

\* Run i has, in this step, taken a candidate without a row right after a
\* candidate whose exiftool failed.
TakenAfterFailure(i) ==
  /\ i \in DOMAIN runs /\ i \in DOMAIN runs'
  /\ runs[i].pc = "scan" /\ runs[i].idx <= Len(runs[i].files)
  /\ "exifError" \in runs[i].ops
  /\ ~PathIndexed(db, runs[i].files[runs[i].idx])
  /\ runs'[i] # runs[i]

\* The step of run i on its current candidate is one the exiftool output
\* out explains: the row written, or the locals held while the file is
\* read, are those of out.
ProcessedAs(i, out) ==
  LET f == runs[i]
      m == ParseExif(out)
  IN IF m.hasGps = 1
       THEN /\ runs'[i].pc = "readFile" /\ runs'[i].idx = f.idx
            /\ runs'[i].lat = m.lat /\ runs'[i].lng = m.lng
            /\ runs'[i].timestamp = m.timestamp /\ runs'[i].hasGps = 1
            /\ db' = db
       ELSE /\ runs'[i].pc = "scan" /\ runs'[i].idx = f.idx + 1
            /\ "insert" \in runs'[i].ops
            /\ db' \in {db, Append(db, [id |-> Len(db) + 1] @@
                                         RowOf(f.files[f.idx], m, None))}

\* C12 as stated: a candidate whose exiftool fails is inserted, with
\* has_gps = 0 and latitude, longitude, timestamp and thumbnail_path null.
C12_Original ==
  [][\A i \in DOMAIN runs :
       ExifFailedInStep(i) =>
         /\ Len(db') = Len(db) + 1
         /\ Columns(db'[Len(db')]) =
              RowOf(runs[i].files[runs[i].idx], ParseExif(ExifFailure), None)
         /\ ParseExif(ExifFailure) =
              [lat |-> None, lng |-> None, hasGps |-> 0, timestamp |-> None]]_vars

\* C12 amended: for such a candidate the INSERT is run with those values in
\* the same step, without any read, conversion or resize, and the row is there
\* unless the INSERT itself fails; the loop moves on, and the next candidate
\* without a row is processed as its own exiftool output says.
C12_FailureInserted ==
  [][\A i \in DOMAIN runs :
       /\ ExifFailedInStep(i) =>
            /\ ParseExif(ExifFailure) =
                 [lat |-> None, lng |-> None, hasGps |-> 0, timestamp |-> None]
            /\ runs'[i].ops = {"exiftool", "exifError", "insert"}
            /\ runs'[i].pc = "scan" /\ runs'[i].idx = runs[i].idx + 1
            /\ thumbs' = thumbs
            /\ db' \in {db, Append(db, [id |-> Len(db) + 1] @@
                            RowOf(runs[i].files[runs[i].idx],
                                  ParseExif(ExifFailure), None))}
       /\ TakenAfterFailure(i) =>
            \E out \in ExifOutputs : ProcessedAs(i, out)]_vars

\* After a candidate whose exiftool failed and whose row is there with
\* nothing but path and file name, the run holds the location and the
\* capture time of the next candidate.
C12_Witness ==
  /\ Len(runs) = 1 /\ runs[1].pc = "readFile" /\ runs[1].idx = 2
  /\ runs[1].lat = Some(48) /\ runs[1].timestamp # None
  /\ Len(db) = 1
  /\ Columns(db[1]) = RowOf(runs[1].files[1], ParseExif(ExifFailure), None)

\* Run i has, in this step, left its current candidate after a failed
\* thumbnail generation: the read or the conversion failed (no resize was
\* started), or the resize left no file.
ThumbFailedInStep(i) ==
  /\ i \in DOMAIN runs /\ i \in DOMAIN runs'
  /\ runs[i].pc \in AwaitPcs
  /\ runs'[i].pc = "scan"
  /\ \/ runs[i].pc # "sharp"
     \/ runs[i].thumbFilename[1] \notin thumbs'

\* Run i has, in this step, called exiftool or started a thumbnail for its
\* current candidate.
ExtractedInStep(i) ==
  /\ i \in DOMAIN runs /\ i \in DOMAIN runs'
  /\ runs[i].pc = "scan" /\ runs[i].idx <= Len(runs[i].files)
  /\ runs'[i] # runs[i]
  /\ "exiftool" \in runs'[i].ops

\* C13 as stated: a candidate whose metadata extraction or thumbnail
\* generation fails has a row from that step on.
C13_Original ==
  [][\A i \in DOMAIN runs :
       (ExifFailedInStep(i) \/ ThumbFailedInStep(i)) =>
         PathIndexed(db', runs[i].files[runs[i].idx])]_vars

\* C13 amended: for such a candidate the run goes on to the INSERT, and the
\* candidate has a row from that step on unless the INSERT itself failed;
\* exiftool is called, and a thumbnail started, only for a candidate without
\* a row, so a candidate that has a row is never extracted again.
C13_NoRetry ==
  [][\A i \in DOMAIN runs :
       /\ (ExifFailedInStep(i) \/ ThumbFailedInStep(i)) =>
            /\ "insert" \in runs'[i].ops
            /\ runs'[i].idx = runs[i].idx + 1
            /\ \/ PathIndexed(db', runs[i].files[runs[i].idx])
               \/ db' = db
       /\ ExtractedInStep(i) =>
            ~PathIndexed(db, runs[i].files[runs[i].idx])]_vars

\* A later run has just skipped a candidate that an earlier run indexed
\* with its location but, its read or conversion having failed, without
\* thumbnail.
C13_Witness ==
  /\ lastScanTime # None
  /\ Len(runs) = 1 /\ runs[1].pc = "scan"
  /\ runs[1].idx > 1 /\ runs[1].ops = {}
  /\ \E k \in DOMAIN db :
       /\ db[k].path = runs[1].files[runs[1].idx - 1]
       /\ db[k].latitude = Some(48) /\ db[k].thumbnail_path = None

\* The counters are those of run i past its first pass: the total is the
\* number of its candidates, the processed counter the number of candidates
\* it has taken.
CountersOf(i) ==
  /\ currentScanTotal = Len(runs[i].files)
  /\ currentScanProcessed =
       IF runs[i].pc = "scan" THEN runs[i].idx - 1 ELSE runs[i].idx

\* C14: at every instant 0 <= processed <= total, and past the first pass
\* of a run the counters are those of the run; within a run the processed
\* counter never decreases and grows by exactly one in the step that takes a
\* candidate, and in no other.
C14_Progress ==
  /\ [](/\ 0 <= currentScanProcessed
        /\ currentScanProcessed <= currentScanTotal
        /\ \A i \in DOMAIN runs : runs[i].pc # "firstPass" => CountersOf(i))
  /\ [][\A i \in DOMAIN runs :
          (runs[i].pc # "firstPass" /\ runs' # runs) =>
            /\ currentScanProcessed' >= currentScanProcessed
            /\ currentScanTotal' = currentScanTotal
            /\ currentScanProcessed' =
                 IF runs[i].pc = "scan" /\ runs[i].idx <= Len(runs[i].files)
                   THEN currentScanProcessed + 1
                   ELSE currentScanProcessed]_vars

\* A run that follows a completed one is half way: it has taken some of its
\* candidates, not all.
C14_Witness ==
  /\ lastScanTime # None
  /\ Len(runs) = 1 /\ runs[1].pc = "scan"
  /\ 0 < currentScanProcessed /\ currentScanProcessed < currentScanTotal
  /\ runs[1].idx = currentScanProcessed + 1

\* Run i ends in this step, having iterated all its candidates.
CompletesInStep(i) ==
  /\ i \in DOMAIN runs
  /\ runs[i].pc = "scan" /\ runs[i].idx > Len(runs[i].files)
  /\ Len(runs') < Len(runs)

\* C15: the step in which a run takes a candidate adds one to the processed
\* counter whatever becomes of the candidate (skipped, inserted, failed or
\* waiting for its thumbnail); when a run has iterated all its candidates the
\* processed counter equals the total, the number of candidates, and stays so
\* as the run ends; while no run is active the two counters do not change.
C15_AllCounted ==
  [][/\ \A i \in DOMAIN runs :
          /\ (runs[i].pc = "scan" /\ runs[i].idx <= Len(runs[i].files)
                /\ runs' # runs) =>
               currentScanProcessed' = currentScanProcessed + 1
          /\ CompletesInStep(i) =>
               /\ currentScanProcessed = currentScanTotal
               /\ currentScanTotal = Len(runs[i].files)
               /\ currentScanProcessed' = currentScanProcessed
               /\ currentScanTotal' = currentScanTotal
               /\ lastScanTime' # None
     /\ runs = <<>> =>
          /\ currentScanProcessed' = currentScanProcessed
          /\ currentScanTotal' = currentScanTotal]_vars

\* A run over a tree that an earlier run indexed has gone through its three
\* candidates, skipping the last: the processed counter is three, the table
\* has the two rows it had.
C15_Witness ==
  /\ lastScanTime # None /\ AllIndexed
  /\ Len(runs) = 1 /\ runs[1].pc = "scan" /\ runs[1].ops = {}
  /\ Len(runs[1].files) = 3 /\ runs[1].idx = 4
  /\ currentScanProcessed = 3 /\ currentScanTotal = 3
  /\ Len(db) = 2

\* What GET /api/scan-status reports.
statusVars ==
  <<isScanning, lastScanTime, currentScanTotal, currentScanProcessed>>

\* C16: a trigger request or timer tick made while a run is active is not
\* admitted and leaves the running flag, lastScanTime and the two counters
\* as they are; the counters are reset only by the first pass of an admitted
\* run, when no other run is active.
C16_CountersUntouched ==
  [][/\ (lastEvent'.src \in {"timer", "post"} /\ isScanning) =>
          /\ ~lastEvent'.admitted
          /\ UNCHANGED statusVars
          /\ runs' = runs
     /\ (currentScanTotal' # currentScanTotal
           \/ currentScanProcessed' < currentScanProcessed) =>
          /\ Len(runs) = 1 /\ runs[1].pc = "firstPass"]_vars

\* A trigger request was answered "conflict" while the active run had
\* processed one of its three candidates.
C16_Witness ==
  /\ lastEvent = [src |-> "post", admitted |-> FALSE, response |-> "conflict"]
  /\ isScanning /\ Len(runs) = 1 /\ runs[1].pc \in AwaitPcs
  /\ currentScanTotal = 3 /\ currentScanProcessed = 1

\* The state a status query has just reported.
StatusServed == lastEvent.src = "status"

\* C17: what a status query reports is the run state of one instant, and it
\* is consistent: with running = true there is exactly one run, past its
\* first pass, the total is the number of candidates of all its roots and
\* the processed counter the number it has taken; with running = false no
\* run is active and the counters are those the last run left, processed
\* being 0 or the total.  The step that sets the total sets it to the count
\* of the whole first pass.
C17_Snapshot ==
  /\ [](StatusServed =>
          /\ isScanning <=> Len(runs) = 1
          /\ isScanning =>
               /\ runs[1].pc # "firstPass"
               /\ CountersOf(1)
          /\ ~isScanning =>
               /\ runs = <<>>
               /\ currentScanProcessed \in {0, currentScanTotal})
  /\ [][/\ StatusServed' => UNCHANGED <<statusVars, runs>>
        /\ currentScanTotal' # currentScanTotal =>
             /\ currentScanTotal' = FirstPass(Disk, loadConfig(configFile)).total
             /\ currentScanProcessed' = 0]_vars

\* A status query was answered during a run over three candidates that
\* follows a completed run over two (the roots were changed in between): it
\* reports the new total and the new run's progress.
C17_Witness ==
  /\ StatusServed /\ isScanning /\ lastScanTime # None
  /\ Len(runs) = 1 /\ runs[1].pc \in AwaitPcs
  /\ currentScanTotal = 3 /\ currentScanProcessed = 1
  /\ Len(db) = 1 /\ db[1].path = FileB

\* Run i stands between two consecutive candidates: it has left one and has
\* not taken the next.
BetweenCandidates(i) ==
  /\ runs[i].pc = "scan"
  /\ 1 < runs[i].idx /\ runs[i].idx <= Len(runs[i].files)

\* C18 as stated: whenever a run stands between two consecutive candidates,
\* a status query can be served (and with it any other handler), whatever
\* became of the candidate just left.
C18_Responsive ==
  \A i \in DOMAIN runs : BetweenCandidates(i) => ENABLED GetScanStatus

\* Row new is row old with the location la, lo, has_gps = 1 and nothing else
\* changed.
Relocated(old, new, la, lo) ==
  /\ new.latitude = la /\ new.longitude = lo /\ new.has_gps = 1
  /\ new.id = old.id /\ new.path = old.path
  /\ new.filename = old.filename /\ new.timestamp = old.timestamp
  /\ new.thumbnail_path = old.thumbnail_path

\* C19: on every table the server reaches, the UPDATE of a manual correction
\* for the id of a row gives that row the pair of the request and
\* has_gps = 1, leaves its other fields, the other rows and the number of
\* rows as they are, and for an id no row has changes nothing; the step of a
\* manual correction changes the table in that way only, and nothing of the
\* run state, the thumbnails or the configuration, during a run as well.
C19_ManualCorrection ==
  /\ [](\A body \in LocationBodies :
          /\ \A k \in DOMAIN db :
               LET new == DbUpdateLocation(db, db[k].id, body[1], body[2])
               IN /\ DOMAIN new = DOMAIN db
                  /\ Relocated(db[k], new[k], body[1], body[2])
                  /\ \A j \in DOMAIN db : j # k => new[j] = db[j]
          /\ DbUpdateLocation(db, Len(db) + 1, body[1], body[2]) = db)
  /\ [][(db' # db /\ runs' = runs) =>
          /\ UNCHANGED <<statusVars, thumbs, configFile>>
          /\ Len(db') = Len(db)
          /\ \E k \in DOMAIN db, body \in LocationBodies :
               /\ Relocated(db[k], db'[k], body[1], body[2])
               /\ \A j \in DOMAIN db : j # k => db'[j] = db[j]]_vars

\* The first run has indexed its first candidate without location and
\* waits for the thumbnail of the second; meanwhile the row of the first has
\* been given a location by hand.
C19_Witness ==
  /\ lastScanTime = None
  /\ isScanning /\ Len(runs) = 1 /\ runs[1].pc \in AwaitPcs
  /\ runs[1].idx = 2 /\ currentScanProcessed = 2
  /\ Len(db) = 1 /\ db[1].path = runs[1].files[1]
  /\ db[1].latitude = Some(10) /\ db[1].longitude = Some(20)
  /\ db[1].has_gps = 1 /\ db[1].thumbnail_path = None

\* The first pass over the root list dirs.
RootsPass(dirs) ==
  FirstPassDirs(Disk, dirs, [threw |-> FALSE, files |-> <<>>, total |-> 0, warned |-> {}])

\* C20: the first pass of a run enumerates the roots that config.json lists
\* at that moment, which is the list it held when the run was admitted (it
\* cannot change in between); after its first pass a run keeps its
\* candidates whatever is done to the configuration; and a change of the
\* configuration changes nothing of an active run, of the run state or of
\* the table.
C20_RootsAtStart ==
  [][/\ \A i \in DOMAIN runs :
          /\ runs[i].pc = "firstPass" => configFile' = configFile
          /\ (runs[i].pc = "firstPass" /\ runs' # runs
                /\ configFile.kind = "dirs") =>
                    IF RootsPass(configFile.dirs).threw
                      THEN Len(runs') < Len(runs)
                      ELSE /\ i \in DOMAIN runs'
                           /\ runs'[i].files = RootsPass(configFile.dirs).files
                           /\ currentScanTotal' = RootsPass(configFile.dirs).total
          /\ (runs[i].pc # "firstPass" /\ i \in DOMAIN runs') =>
               runs'[i].files = runs[i].files
     /\ configFile' # configFile =>
          /\ runs' = runs
          /\ UNCHANGED <<statusVars, db, thumbs>>]_vars

\* The roots were changed while a run waits for a thumbnail: the run holds
\* the candidates of the roots it started with, which are not those of the
\* new list.
C20_Witness ==
  /\ Len(runs) = 1 /\ runs[1].pc \in AwaitPcs
  /\ configFile.kind = "dirs"
  /\ ~RootsPass(configFile.dirs).threw
  /\ runs[1].files # RootsPass(configFile.dirs).files
  /\ currentScanTotal = Len(runs[1].files)

\* The roots of the list dirs that do not exist.
MissingRoots(dirs) ==
  {ResolveDir(dirs[k]) : k \in {j \in DOMAIN dirs : dirs[j] # NonString}}
    \ DOMAIN Disk

\* The list dirs without the roots that do not exist.
RECURSIVE ExistingRoots(_)
ExistingRoots(dirs) ==
  IF dirs = <<>> THEN <<>>
  ELSE IF Head(dirs) # NonString /\ ResolveDir(Head(dirs)) \notin DOMAIN Disk
    THEN ExistingRoots(Tail(dirs))
    ELSE <<Head(dirs)>> \o ExistingRoots(Tail(dirs))

\* The candidates and the total of the run are those of the existing roots
\* of the list.
MissingRootsSkipped(i) ==
  LET dirs == configFile.dirs
  IN /\ RootsPass(dirs).files = RootsPass(ExistingRoots(dirs)).files
     /\ i \in DOMAIN runs'
     /\ runs'[i].files = RootsPass(ExistingRoots(dirs)).files
     /\ currentScanTotal' = Len(runs'[i].files)

\* C21 as stated: when the root list has a root that does not exist, the
\* first pass takes no candidate from it, logs a warning for it, and the run
\* goes on with the candidates of the other roots.
C21_MissingRoot ==
  [][\A i \in DOMAIN runs :
       (/\ runs[i].pc = "firstPass" /\ runs' # runs
        /\ configFile.kind = "dirs"
        /\ ~RootsPass(configFile.dirs).threw
        /\ MissingRoots(configFile.dirs) # {}) =>
         /\ MissingRootsSkipped(i)
         /\ MissingRoots(configFile.dirs) \subseteq
              FirstPass(Disk, loadConfig(configFile)).warned]_vars

\* Run i has, in this step, run the INSERT for its current candidate, and
\* the INSERT threw.
InsertFailedInStep(i) ==
  /\ i \in DOMAIN runs /\ i \in DOMAIN runs'
  /\ runs'[i] # runs[i]
  /\ "insert" \in runs'[i].ops
  /\ db' = db

\* C22: the step in which the processing of a candidate fails (exiftool,
\* read, conversion, resize or INSERT) leaves the run active and at the next
\* candidate; a run past its first pass ends only when it has taken every
\* candidate; and a trigger request is answered "started" or "conflict",
\* nothing else.
C22_FailureIsLocal ==
  [][/\ \A i \in DOMAIN runs :
          /\ (\/ ExifFailedInStep(i) \/ ThumbFailedInStep(i)
               \/ InsertFailedInStep(i)) =>
               /\ runs'[i].pc = "scan"
               /\ runs'[i].idx = runs[i].idx + 1
               /\ runs'[i].files = runs[i].files
               /\ isScanning' /\ Len(runs') = Len(runs)
          /\ (runs[i].pc # "firstPass" /\ Len(runs') < Len(runs)) =>
               /\ runs[i].idx > Len(runs[i].files)
               /\ currentScanProcessed = Len(runs[i].files)
     /\ lastEvent'.src = "post" =>
          lastEvent'.response \in {"started", "conflict"}]_vars

\* The INSERT for the first candidate of a run has failed (the candidate
\* has no row), and the run has taken the second candidate and waits for
\* its thumbnail.
C22_Witness ==
  /\ Len(runs) = 1 /\ runs[1].pc \in AwaitPcs
  /\ runs[1].idx = 2 /\ currentScanProcessed = 2
  /\ db = <<>>

\* The rows GET /api/photos/mapped returns: SELECT ... WHERE has_gps = 1.
Mapped(photos) == {k \in DOMAIN photos : photos[k].has_gps = 1}

\* C23 as stated: every mapped row has a thumbnail_path, and it names a
\* file of the thumbnail store.
C23_MappedHasThumbnail ==
  \A k \in Mapped(db) :
    /\ db[k].thumbnail_path # None
    /\ db[k].thumbnail_path[1] \in thumbs

\* The thumbnail generation of run i's candidate fails in this step and the
\* INSERT that follows is accepted.
InsertedAfterThumbFailure(i) ==
  /\ ThumbFailedInStep(i)
  /\ Len(db') = Len(db) + 1
  /\ db'[Len(db')].path = runs[i].files[runs[i].idx]

\* C24, for a candidate whose INSERT is accepted: when the read, the HEIC
\* conversion or the resize of a geolocated candidate fails, or the buffer
\* is empty, the inserted row carries the extracted latitude and longitude,
\* has_gps = 1 and thumbnail_path = null.
C24_ThumbnailUnavailable ==
  [][\A i \in DOMAIN runs :
       InsertedAfterThumbFailure(i) =>
         LET row == db'[Len(db')]
         IN /\ row.latitude = runs[i].lat
            /\ row.longitude = runs[i].lng
            /\ row.has_gps = 1
            /\ row.thumbnail_path = None]_vars

\* --------------------------------------------- the single-pass performScan
\* src/server.ts holds the performScan that walks and processes one root
\* after the other, without a first pass and without the two counters.  Its
\* getAllFiles, exiftool block, extension list and INSERT are those of the
\* two-pass server, so the operators above are used for them.

\* loadConfig of src/server.ts: the defaults when config.json is absent or
\* cannot be parsed, else the parsed object as it is.
SinglePassLoadConfig(file) ==
  CASE file.kind \in {"absent", "garbage"} ->
         [defined |-> TRUE, photosDirectories |-> <<DefaultDir>>]
    [] file.kind = "nodirs" ->
         [defined |-> FALSE, photosDirectories |-> <<>>]
    [] OTHER ->
         [defined |-> TRUE, photosDirectories |-> file.dirs]

\* Positions of a single-pass run: at the head of the loop over the roots,
\* at the head of the loop over a root's files, or at one of its awaits.
SinglePassSyncPcs == {"nextDir", "nextFile"}
SinglePassBusy == \E i \in DOMAIN runs : runs[i].pc \in SinglePassSyncPcs

\* The locals of a single-pass performScan call when it enters its try
\* block: the configuration it has loaded, no root taken yet.
SinglePassFrame(currentConfig) ==
  [pc |-> "nextDir", defined |-> currentConfig.defined,
   dirs |-> currentConfig.photosDirectories, warned |-> {},
   files |-> <<>>, idx |-> 1,
   lat |-> None, lng |-> None, timestamp |-> None, hasGps |-> 0,
   thumbFilename |-> None, ops |-> {}]

\* performScan of src/server.ts up to the try block, called by src.
SinglePassEntry(src, response) ==
  IF isScanning
    THEN /\ lastEvent' = [src |-> src, admitted |-> FALSE, response |-> response]
         /\ UNCHANGED <<isScanning, runs>>
    ELSE /\ lastEvent' = [src |-> src, admitted |-> TRUE, response |-> response]
         /\ isScanning' = TRUE
         /\ runs' = Append(runs, SinglePassFrame(SinglePassLoadConfig(configFile)))

\* `performScan();` after the setInterval call.
SinglePassStartup ==
  /\ ~booted
  /\ booted' = TRUE
  /\ SinglePassEntry("startup", "none")
  /\ UNCHANGED <<tree, found, lastScanTime, currentScanTotal, currentScanProcessed, db,
                 thumbs, configFile, clock>>

\* setInterval(performScan, 5 * 60 * 1000) fires.
SinglePassTimer ==
  /\ booted /\ ~SinglePassBusy
  /\ SinglePassEntry("timer", "none")
  /\ UNCHANGED <<tree, found, booted, lastScanTime, currentScanTotal, currentScanProcessed,
                 db, thumbs, configFile, clock>>

\* POST /api/scan of src/server.ts
SinglePassPostScan ==
  /\ booted /\ ~SinglePassBusy
  /\ IF isScanning
       THEN /\ lastEvent' = [src |-> "post", admitted |-> FALSE,
                             response |-> "conflict"]
            /\ UNCHANGED <<isScanning, runs>>
       ELSE SinglePassEntry("post", "started")
  /\ UNCHANGED <<tree, found, booted, lastScanTime, currentScanTotal, currentScanProcessed,
                 db, thumbs, configFile, clock>>

\* One turn of the loop over the roots: past the last root the run is
\* complete; a missing root is warned about and passed over; iterating an
\* undefined list, or resolving an entry that is not a string, throws to the
\* outer catch.
SinglePassDirStep(i) ==
  /\ i \in DOMAIN runs /\ runs[i].pc = "nextDir"
  /\ LET f == runs[i] IN
       IF ~f.defined \/ (f.dirs # <<>> /\ Head(f.dirs) = NonString)
         THEN /\ isScanning' = FALSE
              /\ runs' = Remove(runs, i)
              /\ UNCHANGED lastScanTime
       ELSE IF f.dirs = <<>>
         THEN /\ lastScanTime' = Some(clock)
              /\ isScanning' = FALSE
              /\ runs' = Remove(runs, i)
       ELSE LET PHOTOS_DIR == ResolveDir(Head(f.dirs)) IN
              /\ runs' = [runs EXCEPT ![i] =
                   IF ~ExistsSync(tree, PHOTOS_DIR)
                     THEN [f EXCEPT !.dirs = Tail(@),
                                    !.warned = @ \cup {PHOTOS_DIR},
                                    !.ops = {}]
                     ELSE [f EXCEPT !.dirs = Tail(@), !.pc = "nextFile",
                                    !.files = getAllFiles(tree, PHOTOS_DIR, <<>>),
                                    !.idx = 1, !.ops = {}]]
              /\ UNCHANGED <<lastScanTime, isScanning>>
  /\ lastEvent' = NoEvent
  /\ UNCHANGED <<tree, found, booted, currentScanTotal, currentScanProcessed, db, thumbs,
                 configFile, clock>>

\* The frame when the loop over the files moves on: ops are the external
\* calls made for the file just left and the failures among them.
SinglePassContinue(f, ops) ==
  [f EXCEPT !.pc = "nextFile", !.idx = @ + 1,
            !.lat = None, !.lng = None, !.timestamp = None, !.hasGps = 0,
            !.thumbFilename = None, !.ops = ops]

\* One turn of the loop over a root's files, up to the await of readFile:
\* a file without an image extension and a path that has a row are passed
\* over; for any other file exiftool is called and the file is read.
SinglePassFileStep(i) ==
  /\ i \in DOMAIN runs /\ runs[i].pc = "nextFile"
  /\ LET f == runs[i] IN
       IF f.idx > Len(f.files)
         THEN runs' = [runs EXCEPT ![i] = [f EXCEPT !.pc = "nextDir", !.ops = {}]]
       ELSE IF ~IsImage(f.files[f.idx])
         THEN runs' = [runs EXCEPT ![i] = SinglePassContinue(f, {})]
       ELSE IF SelectByPath(db, f.files[f.idx]) # None
         THEN runs' = [runs EXCEPT ![i] = SinglePassContinue(f, {})]
       ELSE \E out \in ExifOutputs :
              LET m == ParseExif(out) IN
                runs' = [runs EXCEPT ![i] =
                  [f EXCEPT !.lat = m.lat, !.lng = m.lng,
                            !.hasGps = m.hasGps, !.timestamp = m.timestamp,
                            !.pc = "readFile",
                            !.ops = ExifCalls(out) \cup {"readFile"}]]
  /\ lastEvent' = NoEvent
  /\ UNCHANGED <<tree, found, booted, isScanning, lastScanTime, currentScanTotal,
                 currentScanProcessed, db, thumbs, configFile, clock>>

\* `fileBuffer = await fs.promises.readFile(filePath)` settles: a read error
\* and an empty file are logged and the loop continues with the next file.
SinglePassReadDone(i) ==
  /\ ~SinglePassBusy
  /\ i \in DOMAIN runs /\ runs[i].pc = "readFile"
  /\ LET f == runs[i] IN
       \E res \in {"error", "empty", "data"} :
         runs' = [runs EXCEPT ![i] =
           IF res # "data"
             THEN SinglePassContinue(f, f.ops \cup {"readError"})
           ELSE IF IsHeic(f.files[f.idx])
             THEN [f EXCEPT !.pc = "heicConvert",
                            !.ops = @ \cup {"heicConvert"}]
           ELSE [f EXCEPT !.pc = "sharp",
                          !.thumbFilename =
                             Some(ThumbName(clock, Basename(f.files[f.idx]))),
                          !.ops = @ \cup {"sharp"}]]
  /\ lastEvent' = NoEvent
  /\ UNCHANGED <<tree, found, booted, isScanning, lastScanTime, currentScanTotal,
                 currentScanProcessed, db, thumbs, configFile, clock>>

\* `await heicConvert(...)` settles: a failure is logged and the loop
\* continues with the next file.
SinglePassHeicDone(i) ==
  /\ ~SinglePassBusy
  /\ i \in DOMAIN runs /\ runs[i].pc = "heicConvert"
  /\ LET f == runs[i] IN
       \E converted \in BOOLEAN :
         runs' = [runs EXCEPT ![i] =
           IF converted
             THEN [f EXCEPT !.pc = "sharp",
                            !.thumbFilename =
                               Some(ThumbName(clock, Basename(f.files[f.idx]))),
                            !.ops = @ \cup {"sharp"}]
             ELSE SinglePassContinue(f, f.ops \cup {"heicError"})]
  /\ lastEvent' = NoEvent
  /\ UNCHANGED <<tree, found, booted, isScanning, lastScanTime, currentScanTotal,
                 currentScanProcessed, db, thumbs, configFile, clock>>

\* `await sharp(fileBuffer).resize(...).toFile(thumbPath)` settles: on a
\* failure the loop continues with the next file; else the INSERT runs,
\* inside the per-file catch.
SinglePassSharpDone(i) ==
  /\ ~SinglePassBusy
  /\ i \in DOMAIN runs /\ runs[i].pc = "sharp"
  /\ LET f == runs[i]
         filePath == f.files[f.idx]
     IN \E written \in BOOLEAN, storageOk \in BOOLEAN :
          IF written
            THEN /\ thumbs' = thumbs \cup {f.thumbFilename[1]}
                 /\ db' = DbInsert(db,
                            [path |-> filePath, filename |-> Basename(filePath),
                             latitude |-> f.lat, longitude |-> f.lng,
                             timestamp |-> f.timestamp, has_gps |-> f.hasGps,
                             thumbnail_path |-> f.thumbFilename],
                            storageOk).photos
                 /\ runs' = [runs EXCEPT ![i] =
                      SinglePassContinue(f, f.ops \cup {"insert"})]
            ELSE /\ runs' = [runs EXCEPT ![i] =
                      SinglePassContinue(f, f.ops \cup {"sharpError"})]
                 /\ UNCHANGED <<db, thumbs>>
  /\ lastEvent' = NoEvent
  /\ UNCHANGED <<tree, found, booted, isScanning, lastScanTime, currentScanTotal,
                 currentScanProcessed, configFile, clock>>

\* The single-pass server: its triggers, the steps of its runs, and time.
NextSinglePass ==
  \/ SinglePassStartup
  \/ SinglePassTimer
  \/ SinglePassPostScan
  \/ AdvanceClock
  \/ \E i \in DOMAIN runs : SinglePassDirStep(i)
  \/ \E i \in DOMAIN runs : SinglePassFileStep(i)
  \/ \E i \in DOMAIN runs : SinglePassReadDone(i)
  \/ \E i \in DOMAIN runs : SinglePassHeicDone(i)
  \/ \E i \in DOMAIN runs : SinglePassSharpDone(i)

SpecSinglePass == Init /\ [][NextSinglePass]_vars

\* A read, a conversion or a resize has failed for run i's current file in
\* this step.
SinglePassFailedInStep(i) ==
  /\ i \in DOMAIN runs /\ i \in DOMAIN runs'
  /\ runs'[i] # runs[i]
  /\ runs'[i].ops \cap {"readError", "heicError", "sharpError"} # {}

\* C25 as stated: in the single-pass scan a candidate whose read, HEIC
\* conversion or resize fails has a row with its path and filename and no
\* thumbnail, and the run goes on with the next candidate.
C25_SinglePassFailureInserted ==
  [][\A i \in DOMAIN runs :
       SinglePassFailedInStep(i) =>
         /\ \E k \in DOMAIN db' :
              /\ db'[k].path = runs[i].files[runs[i].idx]
              /\ db'[k].filename = Basename(runs[i].files[runs[i].idx])
              /\ db'[k].thumbnail_path = None
         /\ runs'[i].pc = "nextFile"
         /\ runs'[i].idx = runs[i].idx + 1]_vars

\* C26: when the INSERT for a candidate fails with a storage error, the run
\* goes on with the next candidate, the per-file catch logs the candidate's
\* path, and the path has no row; and a run that takes a candidate without
\* a row calls exiftool for it, so the next run starts again at the
\* metadata extraction of that path.
C26_StorageErrorRetried ==
  [][\A i \in DOMAIN runs :
       /\ InsertFailedInStep(i) =>
            LET filePath == runs[i].files[runs[i].idx]
            IN /\ runs'[i].pc = "scan"
               /\ runs'[i].idx = runs[i].idx + 1
               /\ isScanning'
               /\ runs'[i].logged = Some(filePath)
               /\ ~PathIndexed(db', filePath)
       /\ (/\ runs[i].pc = "scan" /\ runs' # runs
           /\ runs[i].idx <= Len(runs[i].files)
           /\ ~PathIndexed(db, runs[i].files[runs[i].idx])) =>
            /\ i \in DOMAIN runs'
            /\ "exiftool" \in runs'[i].ops]_vars

\* Every INSERT of the first run has failed; the second run has called
\* exiftool again for the first candidate and is reading the file.
C26_Witness ==
  /\ lastScanTime # None /\ db = <<>>
  /\ Len(runs) = 1 /\ runs[1].pc = "readFile" /\ runs[1].idx = 1
  /\ currentScanTotal = 3
  /\ "exiftool" \in runs[1].ops

\* The number of files with a recognised image extension found under the
\* roots of dirs that exist, each root counted on its own.
RECURSIVE ImageCount(_)
ImageCount(dirs) ==
  IF dirs = <<>> THEN 0
  ELSE (IF Head(dirs) # NonString /\ ExistsSync(Disk, ResolveDir(Head(dirs)))
          THEN Len(SelectSeq(getAllFiles(Disk, ResolveDir(Head(dirs)), <<>>),
                             IsImage))
          ELSE 0)
       + ImageCount(Tail(dirs))

\* C27: the step that ends the first pass of a run sets the total to the
\* number of image files under the existing roots of the configuration and
\* processes no candidate; the processed counter is incremented only by a
\* run that is past its first pass; and from then on no step of the run
\* changes the total.
C27_TwoPass ==
  [][\A i \in DOMAIN runs :
       /\ (runs[i].pc = "firstPass" /\ i \in DOMAIN runs'
           /\ runs'[i].pc # "firstPass") =>
            /\ currentScanTotal' =
                 ImageCount(loadConfig(configFile).photosDirectories)
            /\ currentScanTotal' = Len(runs'[i].files)
            /\ currentScanProcessed' = 0
            /\ runs'[i].idx = 1
            /\ db' = db /\ thumbs' = thumbs
       /\ currentScanProcessed' > currentScanProcessed =>
            /\ runs[i].pc = "scan"
            /\ currentScanTotal' = currentScanTotal
       /\ (runs[i].pc # "firstPass" /\ runs' # runs) =>
            currentScanTotal' = currentScanTotal]_vars

\* A run over a missing root and r1 has counted the two images of r1 and
\* has taken the first.
C27_Witness ==
  /\ configFile = [kind |-> "dirs", dirs |-> <<MISSING, R1>>]
  /\ Len(runs) = 1 /\ runs[1].pc = "readFile"
  /\ currentScanTotal = 2 /\ currentScanProcessed = 1
  /\ runs[1].files = <<FileA, FileB>>

\* Run i ends in this step without having reached the end of its candidate
\* loop.
EndsEarlyInStep(i) ==
  /\ i \in DOMAIN runs
  /\ Len(runs') < Len(runs)
  /\ ~CompletesInStep(i)

\* C28: lastScanTime is null or a time that has been reached, and null
\* before the first call of performScan; it changes only in the step
\* in which a run ends having iterated all its candidates; that step sets
\* it to the current time and clears isScanning, both at once; a run that
\* ends early leaves it as it was.
C28_CompletionTime ==
  /\ [](/\ lastScanTime \in {None} \cup {Some(t) : t \in 0..clock}
        /\ ~booted => lastScanTime = None)
  /\ [][/\ lastScanTime' # lastScanTime =>
             \E i \in DOMAIN runs : CompletesInStep(i)
        /\ \A i \in DOMAIN runs :
             /\ CompletesInStep(i) =>
                  /\ lastScanTime' = Some(clock)
                  /\ ~isScanning'
             /\ EndsEarlyInStep(i) =>
                  /\ lastScanTime' = lastScanTime
                  /\ ~isScanning']_vars

\* A run completed at time 0; at time 1 a run over r1 and an entry that is
\* not a string has ended in its first pass, and the recorded time is still
\* 0.
C28_Witness ==
  /\ runs = <<>> /\ ~isScanning
  /\ currentScanTotal = 2 /\ currentScanProcessed = 0
  /\ lastScanTime = Some(0) /\ clock = 1

\* ------------------------------------------------- every combination of tags
\* The server with a configuration nobody changes, over files that may give
\* any exiftool output: each of the four tags there or not, and a capture
\* date that is not a date.
NextAllTags ==
  \/ StartupScan
  \/ TimerTick
  \/ PostScan
  \/ \E i \in DOMAIN runs : FirstPassStep(i)
  \/ \E i \in DOMAIN runs : ScanStepWith(i, AllExifOutputs)
  \/ \E i \in DOMAIN runs : ReadFileDone(i)
  \/ \E i \in DOMAIN runs : HeicConvertDone(i)
  \/ \E i \in DOMAIN runs : SharpDone(i)

SpecAllTags == Init /\ [][NextAllTags]_vars

\* The ISO form of a date tag of exiftool, null for a value that is not a
\* calendar date.
IsoOf(d) ==
  CASE d = GoodOriginal -> Some("2024-05-01T10:00:00.000Z")
    [] d = GoodCreate -> Some("2023-12-31T23:59:59.000Z")
    [] OTHER -> None

\* The timestamp of the row for a file with exiftool output out: from
\* DateTimeOriginal when the tag is there, else from CreateDate, else null.
TimestampOf(out) ==
  IF ~out.ok THEN None
  ELSE IF out.DateTimeOriginal # None THEN IsoOf(out.DateTimeOriginal[1])
  ELSE IF out.CreateDate # None THEN IsoOf(out.CreateDate[1])
  ELSE None

\* Run i has, in this step, run the INSERT for its candidate and the row is
\* in the table.
InsertedInStep(i) ==
  /\ i \in DOMAIN runs /\ i \in DOMAIN runs'
  /\ runs'[i] # runs[i]
  /\ "insert" \in runs'[i].ops
  /\ Len(db') = Len(db) + 1

\* C29: for every output of exiftool the timestamp local is the ISO form of
\* DateTimeOriginal when that tag is there, else of CreateDate, else null,
\* and null when the tag used is not a date; a row inserted by a run has
\* the timestamp so derived for its candidate; and a capture date that is
\* not a date does not fail the candidate: the exiftool catch logs it, and
\* the candidate goes on to its thumbnail or its INSERT with the location
\* that was extracted.
C29_Timestamp ==
  /\ [](\A out \in AllExifOutputs :
          ParseExif(out).timestamp = TimestampOf(out))
  /\ [][\A i \in DOMAIN runs :
          /\ InsertedInStep(i) =>
               /\ db'[Len(db')].timestamp
                    \in {TimestampOf(out) : out \in AllExifOutputs}
               /\ runs[i].pc \in AwaitPcs =>
                    db'[Len(db')].timestamp = runs[i].timestamp
          /\ (ExtractedInStep(i) /\ "exifError" \in runs'[i].ops) =>
               /\ runs'[i].timestamp = None
               /\ runs'[i].pc = "scan" =>
                    /\ runs'[i].idx = runs[i].idx + 1
                    /\ "insert" \in runs'[i].ops
                    /\ db' # db => db'[Len(db')].timestamp = None
               /\ runs'[i].pc # "scan" =>
                    /\ runs'[i].pc = "readFile"
                    /\ runs'[i].lat # None /\ runs'[i].hasGps = 1]_vars

\* The first candidate had a creation date only and its row has that date;
\* the second has both GPS tags and a capture date that is not a date: the
\* catch of the exiftool block has logged, and the candidate is being read
\* for its thumbnail with its location and a null timestamp.
C29_Witness ==
  /\ Len(db) = 1 /\ db[1].has_gps = 0
  /\ db[1].timestamp = Some("2023-12-31T23:59:59.000Z")
  /\ Len(runs) = 1 /\ runs[1].pc = "readFile" /\ runs[1].idx = 2
  /\ "exifError" \in runs[1].ops
  /\ runs[1].lat = Some(48) /\ runs[1].lng = Some(2)
  /\ runs[1].timestamp = None

\* ------------------------------------------------------ files with GPS tags
\* The outputs of exiftool that report a latitude, a longitude or both.
GpsTagOutputs ==
  { out \in AllExifOutputs :
      out.ok /\ (out.GPSLatitude # None \/ out.GPSLongitude # None) }

\* The server with a configuration nobody changes, over files that all
\* report at least one of the two GPS tags.
NextGpsTags ==
  \/ StartupScan
  \/ TimerTick
  \/ PostScan
  \/ \E i \in DOMAIN runs : FirstPassStep(i)
  \/ \E i \in DOMAIN runs : ScanStepWith(i, GpsTagOutputs)
  \/ \E i \in DOMAIN runs : ReadFileDone(i)
  \/ \E i \in DOMAIN runs : HeicConvertDone(i)
  \/ \E i \in DOMAIN runs : SharpDone(i)

SpecGpsTags == Init /\ [][NextGpsTags]_vars

\* exiftool has reported both a latitude and a longitude.
BothReported(out) ==
  out.ok /\ out.GPSLatitude # None /\ out.GPSLongitude # None

\* C30: for every output of exiftool the locals carry a location iff both
\* GPS tags were reported, and then the reported one; with one tag or none
\* lat and lng are null and hasGps is 0.  A row inserted by a run has
\* has_gps = 1 iff it has both coordinates, and has both or neither; a
\* candidate inserted without going through the thumbnail branch has
\* neither, one inserted after it has the two reported values.
C30_BothTags ==
  /\ [](\A out \in AllExifOutputs :
          LET m == ParseExif(out)
          IN IF BothReported(out)
               THEN /\ m.hasGps = 1
                    /\ m.lat = out.GPSLatitude /\ m.lng = out.GPSLongitude
               ELSE /\ m.hasGps = 0
                    /\ m.lat = None /\ m.lng = None)
  /\ [][\A i \in DOMAIN runs :
          InsertedInStep(i) =>
            LET row == db'[Len(db')]
            IN /\ row.has_gps \in {0, 1}
               /\ row.has_gps = 1 <=>
                    (row.latitude # None /\ row.longitude # None)
               /\ row.latitude = None <=> row.longitude = None
               /\ runs[i].pc = "scan" =>
                    /\ row.has_gps = 0
                    /\ row.latitude = None /\ row.longitude = None
               /\ runs[i].pc \in AwaitPcs =>
                    /\ row.has_gps = 1
                    /\ row.latitude = Some(48) /\ row.longitude = Some(2)]_vars

\* Of two files that report GPS tags, the first reported one tag only and
\* its row has no location; the second reported both and its row has them.
C30_Witness ==
  /\ Len(db) = 2
  /\ db[1].has_gps = 0
  /\ db[1].latitude = None /\ db[1].longitude = None
  /\ db[2].has_gps = 1
  /\ db[2].latitude = Some(48) /\ db[2].longitude = Some(2)

\* ----------------------------------------------------------- path discovery
\* getAllFiles taken on its own, over directory trees of three levels.  The
\* root d lists x, s and y in one of two orders; s lists z and t; t lists
\* w.  x, y, z and w are files, s and t are directories or files; any entry
\* but w may be one that statSync throws on, and any directory one that
\* readdirSync throws on.
D == <<"d">>
DX == <<"d", "x">>
DS == <<"d", "s">>
DY == <<"d", "y">>
DSZ == <<"d", "s", "z">>
DST == <<"d", "s", "t">>
DSTW == <<"d", "s", "t", "w">>
GONE == <<"gone">>

FileKinds == {"file", "nostat"}
DirKinds == {"dir", "file", "noread", "nostat"}
RootListings == { <<"x", "s", "y">>, <<"s", "y", "x">> }

TreeOf(kd, ld, kx, ks, ky, kz, kt) ==
  (D :> [kind |-> kd, listing |-> ld]) @@
  (DX :> [kind |-> kx, listing |-> <<>>]) @@
  (DS :> [kind |-> ks, listing |-> <<"z", "t">>]) @@
  (DY :> [kind |-> ky, listing |-> <<>>]) @@
  (DSZ :> [kind |-> kz, listing |-> <<>>]) @@
  (DST :> [kind |-> kt, listing |-> <<"w">>]) @@
  (DSTW :> [kind |-> "file", listing |-> <<>>])

Trees ==
  { TreeOf(kd, ld, kx, ks, ky, kz, kt) :
      kd \in {"dir", "noread"}, ld \in RootListings,
      kx \in FileKinds, ks \in DirKinds, ky \in FileKinds,
      kz \in FileKinds, kt \in DirKinds }

\* The arguments the walk is started with: the root of a tree, a
\* subdirectory, and a path that does not exist.
DiscoveryRoots == {D, DS, GONE}

InitDiscovery ==
  /\ booted = FALSE
  /\ isScanning = FALSE
  /\ lastScanTime = None
  /\ currentScanTotal = 0
  /\ currentScanProcessed = 0
  /\ db = <<>>
  /\ thumbs = {}
  /\ configFile = [kind |-> "absent", dirs |-> <<>>]
  /\ runs = <<>>
  /\ clock = 0
  /\ tree \in Trees
  /\ found = None
  /\ lastEvent = NoEvent

\* getAllFiles(root): the call with the default empty array.
Discover(root) ==
  /\ found' = Some([root |-> root, files |-> getAllFiles(tree, root, <<>>)])
  /\ UNCHANGED <<booted, isScanning, lastScanTime, currentScanTotal,
                 currentScanProcessed, db, thumbs, configFile, runs, clock,
                 tree, lastEvent>>

NextDiscovery == \E root \in DiscoveryRoots : Discover(root)

SpecDiscovery == InitDiscovery /\ [][NextDiscovery]_vars

\* Every directory of the tree can be listed and every entry stat-ed.
FullyReadable(fs) ==
  \A q \in DOMAIN fs : fs[q].kind \in {"dir", "file"}

\* q lies below root.
Below(q, root) ==
  Len(q) > Len(root) /\ SubSeq(q, 1, Len(root)) = root

\* q is a file that recursive descent from root reaches: root and every
\* directory on the way down to q can be listed and stat-ed as a directory,
\* each lists the next component, and q is a regular file.
Reachable(fs, root, q) ==
  /\ root \in DOMAIN fs /\ q \in DOMAIN fs
  /\ Below(q, root)
  /\ fs[q].kind = "file"
  /\ \A k \in Len(root)..(Len(q) - 1) :
       LET dir == SubSeq(q, 1, k)
       IN /\ dir \in DOMAIN fs /\ fs[dir].kind = "dir"
          /\ \E j \in DOMAIN fs[dir].listing : fs[dir].listing[j] = q[k + 1]

\* The position of a name in a listing.
PositionIn(listing, name) ==
  CHOOSE j \in DOMAIN listing : listing[j] = name

\* q1 comes before q2 in depth-first listing order: where the two paths
\* part, q1's component is listed first by the directory they share.
Before(fs, q1, q2) ==
  \E k \in 1..Len(q1) :
    /\ k <= Len(q2)
    /\ SubSeq(q1, 1, k - 1) = SubSeq(q2, 1, k - 1)
    /\ q1[k] # q2[k]
    /\ LET listing == fs[SubSeq(q1, 1, k - 1)].listing
       IN PositionIn(listing, q1[k]) < PositionIn(listing, q2[k])

\* files holds the files reachable from root, each once, in depth-first
\* listing order.
IsWalkOf(fs, root, files) ==
  /\ {files[k] : k \in DOMAIN files}
       = {q \in DOMAIN fs : Reachable(fs, root, q)}
  /\ \A j, k \in DOMAIN files : j < k =>
       /\ files[j] # files[k]
       /\ Before(fs, files[j], files[k])

\* C31: over a tree that is fully readable, getAllFiles returns the files
\* reachable by recursive descent from its root, each exactly once and no
\* other path, in depth-first listing order; and a further call over the
\* same tree and root returns the same sequence.
C31_Discovery ==
  /\ []((found # None /\ FullyReadable(tree)) =>
          IsWalkOf(tree, found[1].root, found[1].files))
  /\ [][(found # None /\ found' # None
          /\ found'[1].root = found[1].root) =>
            found'[1].files = found[1].files]_vars

\* The walk of a fully readable tree whose root lists s first: the file of
\* the third level comes at the place of s, ahead of y and x.
C31_Witness ==
  /\ found # None /\ FullyReadable(tree)
  /\ found[1].root = D
  /\ found[1].files = <<DSZ, DSTW, DY, DX>>

\* C32: over a tree with entries that cannot be stat-ed or directories that
\* cannot be listed, getAllFiles returns, in listing order and each once,
\* exactly the files that descent reaches without going through such an
\* entry: a bad entry takes away itself or its subtree and nothing else,
\* whatever was collected before it and whatever is listed after it.  For a
\* root that does not exist it returns the empty sequence.
C32_BadEntries ==
  found # None =>
    /\ ~FullyReadable(tree) =>
         IsWalkOf(tree, found[1].root, found[1].files)
    /\ found[1].root \notin DOMAIN tree => found[1].files = <<>>

\* x cannot be stat-ed and t cannot be listed: the walk of d returns z,
\* collected before t was met, and y, listed after x and s.
C32_Witness ==
  /\ found # None /\ found[1].root = D
  /\ tree[D].listing = <<"x", "s", "y">>
  /\ tree[DX].kind = "nostat" /\ tree[DST].kind = "noread"
  /\ found[1].files = <<DSZ, DY>>

\* ------------------------------------------------------------ process stops
\* The process stops, at any point, and is started again: the variables of
\* startServer start afresh, the calls in progress are gone, and what is on
\* disk (the photos table, the thumbnails, config.json) is as it was left.
Crash ==
  /\ booted
  /\ booted' = FALSE
  /\ isScanning' = FALSE
  /\ lastScanTime' = None
  /\ currentScanTotal' = 0
  /\ currentScanProcessed' = 0
  /\ runs' = <<>>
  /\ lastEvent' = NoEvent
  /\ UNCHANGED <<tree, found, db, thumbs, configFile, clock>>

\* The server with a configuration nobody changes, stopped and started again
\* at any point.
NextCrash ==
  \/ StartupScan
  \/ TimerTick
  \/ PostScan
  \/ Crash
  \/ \E i \in DOMAIN runs : FirstPassStep(i)
  \/ \E i \in DOMAIN runs : ScanStep(i)
  \/ \E i \in DOMAIN runs : ReadFileDone(i)
  \/ \E i \in DOMAIN runs : HeicConvertDone(i)
  \/ \E i \in DOMAIN runs : SharpDone(i)

SpecCrash == Init /\ [][NextCrash]_vars

\* A row is complete: it has every column, its path is one of the files on
\* disk, and filename is the base name of path.
CompleteRow(r) ==
  /\ DOMAIN r = {"id", "path", "filename", "latitude", "longitude",
                 "timestamp", "has_gps", "thumbnail_path"}
  /\ r.path \in {FileA, FileB}
  /\ r.filename = Basename(r.path)
  /\ r.has_gps \in {0, 1}

\* Run i leaves a candidate in this step.
LeavesCandidate(i) ==
  /\ i \in DOMAIN runs /\ i \in DOMAIN runs'
  /\ runs[i].pc # "firstPass"
  /\ runs'[i].idx = runs[i].idx + 1

\* C33 as stated: whenever the process stops the table holds complete rows,
\* at most one for a path, and a run that completes ends with exactly one
\* row for each of its candidates.
C33_Original ==
  /\ [](\A k \in DOMAIN db : CompleteRow(db[k]))
  /\ []NoDuplicatePaths
  /\ [][\A i \in DOMAIN runs :
          CompletesInStep(i) =>
            \A k \in DOMAIN runs[i].files :
              Cardinality(RowsWithPath(db', runs[i].files[k])) = 1]_vars

\* C33 amended: at every point, hence whenever the process stops, the table
\* holds complete rows, at most one for a path; a stop changes nothing of
\* the table; a run skips a candidate that has a row, without a call for it
\* and leaving the table as it is; the row a run inserts is for its
\* candidate, which had none; and a run leaves a candidate with exactly one
\* row unless the INSERT for it failed.
C33_Resumable ==
  /\ [](\A k \in DOMAIN db : CompleteRow(db[k]))
  /\ []NoDuplicatePaths
  /\ [][/\ (booted /\ ~booted') => db' = db
        /\ \A i \in DOMAIN runs :
             LET filePath == runs[i].files[runs[i].idx] IN
               /\ (/\ runs[i].pc = "scan" /\ i \in DOMAIN runs'
                   /\ runs'[i] # runs[i]
                   /\ runs[i].idx <= Len(runs[i].files)
                   /\ PathIndexed(db, filePath)) =>
                    /\ db' = db /\ thumbs' = thumbs
                    /\ runs'[i].ops = {}
                    /\ runs'[i].idx = runs[i].idx + 1
               /\ InsertedInStep(i) =>
                    /\ ~PathIndexed(db, filePath)
                    /\ db'[Len(db')].path = filePath
                    /\ SubSeq(db', 1, Len(db)) = db
               /\ LeavesCandidate(i) =>
                    \/ Cardinality(RowsWithPath(db', filePath)) = 1
                    \/ InsertFailedInStep(i)]_vars

\* The process was stopped after a.jpg got its row; started again, its
\* first run has counted three candidates and skipped a.jpg.
C33_Witness ==
  /\ lastScanTime = None
  /\ Len(db) = 1 /\ db[1].path = FileA
  /\ Len(runs) = 1 /\ runs[1].pc = "scan" /\ runs[1].idx = 2
  /\ runs[1].ops = {}
  /\ currentScanTotal = 3 /\ currentScanProcessed = 1

\* -------------------------------------------------- two files of one name
\* A tree in which r1 and r1/sub each hold a file B.HEIC.
FileB2 == <<"r1", "B.HEIC">>

DiskSameName ==
  (R1 :> [kind |-> "dir", listing |-> <<"B.HEIC", "sub">>]) @@
  (SUB :> [kind |-> "dir", listing |-> <<"B.HEIC">>]) @@
  (FileB2 :> [kind |-> "file", listing |-> <<>>]) @@
  (FileB :> [kind |-> "file", listing |-> <<>>])

InitSameName ==
  /\ booted = FALSE
  /\ isScanning = FALSE
  /\ lastScanTime = None
  /\ currentScanTotal = 0
  /\ currentScanProcessed = 0
  /\ db = <<>>
  /\ thumbs = {}
  /\ configFile = [kind |-> "dirs", dirs |-> <<R1>>]
  /\ runs = <<>>
  /\ clock = 0
  /\ tree = DiskSameName
  /\ found = None
  /\ lastEvent = NoEvent

\* The server over that tree, with r1 as its only root; Date.now() may or
\* may not have moved on between two calls.
NextSameName ==
  \/ StartupScan
  \/ TimerTick
  \/ PostScan
  \/ AdvanceClock
  \/ \E i \in DOMAIN runs : FirstPassStep(i)
  \/ \E i \in DOMAIN runs : ScanStep(i)
  \/ \E i \in DOMAIN runs : ReadFileDone(i)
  \/ \E i \in DOMAIN runs : HeicConvertDone(i)
  \/ \E i \in DOMAIN runs : SharpDone(i)

SpecSameName == InitSameName /\ [][NextSameName]_vars

\* C34 as stated: no two rows have the same non-null thumbnail_path.
C34_UniqueThumbnails ==
  \A j, k \in DOMAIN db :
    (j # k /\ db[j].thumbnail_path # None) =>
      db[j].thumbnail_path # db[k].thumbnail_path

\* Row r holds the location of a manual correction (the pair 10, 20 of
\* LocationBodies; exiftool reports 48, 2).
ManuallyLocated(r) ==
  r.latitude = Some(10) /\ r.longitude = Some(20) /\ r.has_gps = 1

\* C35: a row that holds a manually given location holds it after every
\* step that is not another manual correction, a step of a run in
\* particular, whether the run was in progress when the correction was made
\* or began later; and a run that reaches the path of such a row passes it
\* over without a call for it.
C35_CorrectionKept ==
  [][\A k \in DOMAIN db :
       ManuallyLocated(db[k]) =>
         /\ k \in DOMAIN db' /\ db'[k].path = db[k].path
         /\ (runs' # runs \/ db' = db) => db'[k] = db[k]
         /\ \A i \in DOMAIN runs :
              (/\ runs[i].pc = "scan" /\ i \in DOMAIN runs'
               /\ runs'[i] # runs[i]
               /\ runs[i].idx <= Len(runs[i].files)
               /\ runs[i].files[runs[i].idx] = db[k].path) =>
                 /\ runs'[i].ops = {}
                 /\ db' = db /\ thumbs' = thumbs]_vars

\* The first run of the server has indexed a.jpg without a location; while
\* it waited for the thumbnail of B.HEIC the row of a.jpg was given a
\* location by hand; the run has since inserted B.HEIC, and the row of a.jpg
\* is as the correction left it.
C35_Witness ==
  /\ lastScanTime = None
  /\ Len(runs) = 1 /\ runs[1].pc = "scan" /\ runs[1].idx = 3
  /\ "insert" \in runs[1].ops
  /\ Len(db) = 2 /\ db[1].path = FileA /\ db[2].path = FileB
  /\ ManuallyLocated(db[1]) /\ db[1].thumbnail_path = None

\* The rows of photos whose thumbnail_path is the name t.
ReferencedBy(photos, t) ==
  {k \in DOMAIN photos : photos[k].thumbnail_path = Some(t)}

\* C36: between the steps of the runs, every file of the thumbnail store is
\* the thumbnail_path of exactly one row: the write of a thumbnail and the
\* INSERT that follows it are one step of the run, so nothing of a candidate
\* is pending in any state.
C36_ThumbnailsReferenced ==
  \A t \in thumbs : Cardinality(ReferencedBy(db, t)) = 1

\* exiftool has reported a capture date that new Date cannot read: the tag
\* the code takes (DateTimeOriginal, else CreateDate) is there and
\* toISOString throws on it.
DateUnparsable(out) ==
  /\ out.ok
  /\ LET date == IF out.DateTimeOriginal # None THEN out.DateTimeOriginal
                 ELSE out.CreateDate
     IN date # None /\ ToISOString(ReplaceDate(date[1])) = None

\* C37: for every output of exiftool with both GPS tags and a capture date
\* that does not parse, the locals are the reported latitude and longitude,
\* hasGps = 1 and a null timestamp; and the row a run inserts for such a
\* candidate, after the thumbnail branch that its location opened, is the
\* row of that path with the extracted location, has_gps = 1 and
\* timestamp null.
C37_LocationSurvivesDate ==
  /\ [](\A out \in AllExifOutputs :
          (BothReported(out) /\ DateUnparsable(out)) =>
            ParseExif(out) = [lat |-> out.GPSLatitude,
                              lng |-> out.GPSLongitude,
                              hasGps |-> 1, timestamp |-> None])
  /\ [][\A i \in DOMAIN runs :
          (/\ InsertedInStep(i)
           /\ runs[i].pc \in AwaitPcs
           /\ "exifError" \in runs[i].ops) =>
             LET row == db'[Len(db')]
             IN /\ row.path = runs[i].files[runs[i].idx]
                /\ row.latitude = Some(48) /\ row.longitude = Some(2)
                /\ row.has_gps = 1
                /\ row.timestamp = None]_vars

\* The first candidate of the first run reported both GPS tags and a capture
\* date that is not a date: the catch of the exiftool block logged, the
\* thumbnail was written, and the row is in the table with the location and
\* no timestamp.
C37_Witness ==
  /\ lastScanTime = None
  /\ Len(runs) = 1 /\ runs[1].pc = "scan" /\ runs[1].idx = 2
  /\ {"exifError", "sharp", "insert"} \subseteq runs[1].ops
  /\ Len(db) = 1 /\ db[1].path = runs[1].files[1]
  /\ db[1].latitude = Some(48) /\ db[1].longitude = Some(2)
  /\ db[1].has_gps = 1 /\ db[1].timestamp = None
  /\ db[1].thumbnail_path # None /\ db[1].thumbnail_path[1] \in thumbs

====
